---- MODULE Spec2Model ----
(***************************************************************************)
(* kiwibnc: the downstream command dispatcher (src/worker/clientcommands)  *)
(* and the connection state record it drives.                              *)
(*                                                                         *)
(* A dispatched line is run by the operator Run, which threads a "machine" *)
(* record m through the statements of the handler:                         *)
(*   m.st     the ConnectionState of the dispatching connection            *)
(*   m.ups    the outgoing connections of the registry (conDict)           *)
(*   m.closed con.close() has been called                                  *)
(*   m.db     the persisted row of the connection                          *)
(*   m.pend   snapshots of save() calls that have not completed yet        *)
(*   m.dirty  fields were assigned since the last save() snapshot          *)
(*   m.dbOk   the persistence layer accepts the writes of this step        *)
(*   m.err    an exception is propagating                                  *)
(*   m.ret    the value of the last return statement                       *)
(*   m.susp   where the top-level handler is suspended, if it is           *)
(*   m.obs    what an observer of this dispatch has seen                   *)
(***************************************************************************)
EXTENDS Integers, Sequences, FiniteSets, TLC

\* ------------------------------------------------------------------ bounds
MaxQueue == 3       \* lines held in reg.queue
MaxUps == 2         \* outgoing connections in the registry

\* ------------------------------------------------------------- connections
Downs == {"d1", "d2"}

\* ---------------------------------------------------- the credential store
\* con.userDb: one user with two networks (spec.md, scenario 1: user 4, network 9)
Users == { [id |-> 4, name |-> "alice", password |-> "s3cret"] }

Networks == { [id |-> 9,  user_id |-> 4, name |-> "freenode", nick |-> "alice_fn",
               host |-> "irc.freenode.net", port |-> "6697", tls |-> TRUE],
              [id |-> 10, user_id |-> 4, name |-> "oftc",     nick |-> "alice_of",
               host |-> "irc.oftc.net", port |-> "6667", tls |-> FALSE] }

\* authUser(u, p) -> user | null; the id, 0 for null
authUser(u, p) ==
    LET hit == {x \in Users : x.name = u /\ x.password = p}
    IN  IF hit = {} THEN 0 ELSE (CHOOSE x \in hit : TRUE).id

\* authUserNetwork(u, p, net) -> network | null; the network id, 0 for null
authUserNetwork(u, p, net) ==
    LET uid == authUser(u, p)
        hit == {n \in Networks : n.user_id = uid /\ n.name = net}
    IN  IF uid = 0 \/ hit = {} THEN 0 ELSE (CHOOSE n \in hit : TRUE).id

\* getNetworkByName(userId, name) -> network | null; the network id, 0 for null
getNetworkByName(uid, name) ==
    LET hit == {n \in Networks : n.user_id = uid /\ n.name = name}
    IN  IF hit = {} THEN 0 ELSE (CHOOSE n \in hit : TRUE).id

NetworkById(id) == CHOOSE n \in Networks : n.id = id

\* getUserNetworks(userId): the networks of the user, by id
RECURSIVE inOrder(_)
inOrder(nets) ==
    IF nets = {} THEN <<>>
    ELSE LET n == CHOOSE x \in nets : \A y \in nets : x.id <= y.id
         IN  <<n>> \o inOrder(nets \ {n})

getUserNetworks(uid) == inOrder({n \in Networks : n.user_id = uid})

\* ------------------------------------------------------------------ lines
\* A wire line is the tuple of its words; a parsed message has a command and
\* params.  msg.source is not part of the wire line.
PassArgs == { "alice/freenode:s3cret", "alice:s3cret", "alice/freenode:bad", "xxx", ":" }

\* The characters of the PASS arguments; a run of letters is one token.
Chars(s) ==
    CASE s = "alice/freenode:s3cret" -> <<"alice", "/", "freenode", ":", "s3cret">>
      [] s = "alice:s3cret"          -> <<"alice", ":", "s3cret">>
      [] s = "alice/freenode:bad"    -> <<"alice", "/", "freenode", ":", "bad">>
      [] s = "xxx"                   -> <<"xxx">>
      [] s = ":"                     -> <<":">>
      [] s = ""                      -> <<>>
      [] OTHER                       -> <<s>>

\* String.prototype.toUpperCase on the words used here
toUpperCase(s) ==
    CASE s = "ls"   -> "LS"
      [] s = "end"  -> "END"
      [] s = "req"  -> "REQ"
      [] s = "list" -> "LIST"
      [] s = "connect" -> "CONNECT"
      [] OTHER -> s

\* String.prototype.toLowerCase on the buffer names used here
toLowerCase(s) ==
    CASE s = "#A"   -> "#a"
      [] s = "#Foo" -> "#foo"
      [] s = "#FOO" -> "#foo"
      [] s = "Bob"  -> "bob"
      [] OTHER -> s

\* String.prototype.split(' ') on the CAP REQ arguments used here
split(s) ==
    CASE s = "server-time bogus" -> <<"server-time", "bogus">>
      [] OTHER -> <<s>>

\* msg.to1459(): the wire form of a parsed message
to1459(msg) == <<msg.command>> \o msg.params

\* ircLineParser(line): null (here: command "") for a line it cannot parse
ircLineParser(line) ==
    IF Len(line) = 0
    THEN [command |-> "", params |-> <<>>]
    ELSE [command |-> Head(line), params |-> Tail(line)]

\* helpers.mParam(msg, idx, default) and mParamU
mParam(msg, idx, default) ==
    IF idx + 1 <= Len(msg.params) THEN msg.params[idx + 1] ELSE default

mParamU(msg, idx, default) == toUpperCase(mParam(msg, idx, default))

\* ------------------------------------------------- the PASS regular expression
\* /([^\/:]+)(?:\/([^:]+))?(?::(.*))?/ applied to the characters cs.
\* The result is [ok, m1, m2, m3]; an unmatched group is the empty string.
RECURSIVE JoinChars(_)
JoinChars(cs) == IF cs = <<>> THEN "" ELSE Head(cs) \o JoinChars(Tail(cs))

\* the end of the longest run of characters outside stop that starts at i
RECURSIVE RunEnd(_, _, _)
RunEnd(cs, i, stop) ==
    IF i <= Len(cs) /\ cs[i] \notin stop THEN RunEnd(cs, i + 1, stop) ELSE i - 1

PassMatch(cs) ==
    LET starts == {i \in 1..Len(cs) : cs[i] \notin {"/", ":"}}
    IN  IF starts = {}
        THEN [ok |-> FALSE, m1 |-> "", m2 |-> "", m3 |-> ""]
        ELSE LET s1 == CHOOSE i \in starts : \A j \in starts : i <= j
                 e1 == RunEnd(cs, s1, {"/", ":"})
                 has2 == e1 + 2 <= Len(cs) /\ cs[e1 + 1] = "/" /\ cs[e1 + 2] # ":"
                 e2 == IF has2 THEN RunEnd(cs, e1 + 2, {":"}) ELSE e1
                 has3 == e2 + 1 <= Len(cs) /\ cs[e2 + 1] = ":"
             IN  [ok |-> TRUE,
                  m1 |-> JoinChars(SubSeq(cs, s1, e1)),
                  m2 |-> IF has2 THEN JoinChars(SubSeq(cs, e1 + 2, e2)) ELSE "",
                  m3 |-> IF has3 THEN JoinChars(SubSeq(cs, e2 + 2, Len(cs))) ELSE ""]

\* ------------------------------------------------------- ConnectionState
\* tempData is a JS object: a function whose domain is the keys that are set.
NoTemp == [k \in {} |-> 0]

\* new ConnectionState(id, db): the fields the dispatcher reads and writes.
\* caps is a Set (kind "Set"); an Array has kind "Array".
NewState ==
    [ netRegistered |-> FALSE,
      nick          |-> "unknown-user",
      caps          |-> [kind |-> "Set", elems |-> {}],
      authUserId    |-> 0,
      authNetworkId |-> 0,
      tempData      |-> NoTemp ]

tempHas(st, key) == key \in DOMAIN st.tempData

\* tempGet(key) for a key that is set
tempGet(st, key) == st.tempData[key]

\* the assignment part of tempSet(key, val) for a string key: delete or set
tempPut(st, key, val, del) ==
    IF del
    THEN [st EXCEPT !.tempData = [k \in (DOMAIN st.tempData) \ {key} |-> st.tempData[k]]]
    ELSE [st EXCEPT !.tempData = (key :> val) @@ st.tempData]

\* con.state.tempGet('capping') as a condition: set and a non-empty string
capping(st) == tempHas(st, "capping") /\ tempGet(st, "capping") # ""

\* con.state.tempGet('reg.queue') || []
regQueue(st) == IF tempHas(st, "reg.queue") THEN tempGet(st, "reg.queue") ELSE <<>>

\* ------------------------------------------------------------ the registry
\* An outgoing connection of conDict, with the fields of its state that the
\* dispatcher reads.  buffers maps a lowercased name to [name, joined, topic].
NoBuffers == [k \in {} |-> 0]

NewUpstream(net, links) ==
    [ userId        |-> net.user_id,
      networkId     |-> net.id,
      nick          |-> net.nick,
      dialing       |-> TRUE,
      connected     |-> FALSE,
      netRegistered |-> FALSE,
      buffers       |-> NoBuffers,
      linked        |-> links ]

\* conDict.findUsersOutgoingConnection(userId, networkId): the index of the
\* first outgoing connection of that user and network, 0 for none
findUsersOutgoingConnection(ups, uid, nid) ==
    LET hit == {i \in 1..Len(ups) : ups[i].userId = uid /\ ups[i].networkId = nid}
    IN  IF hit = {} THEN 0 ELSE CHOOSE i \in hit : \A j \in hit : i <= j

\* con.upstream: null when not logged in, else the user's outgoing connection
\* for the network this connection is authenticated to
upstreamOf(ups, st) ==
    IF st.authUserId = 0 THEN 0
    ELSE findUsersOutgoingConnection(ups, st.authUserId, st.authNetworkId)

\* --------------------------------------------------------------- the machine
NoSusp == [at |-> "idle", net |-> 0]

NewObs(line, st, ups) ==
    [ line      |-> line,          \* the dispatched wire line
      post      |-> st,            \* the state of the connection when the step ended
      pre       |-> [st |-> st,     \* the state, the registry and the upstream before
                     nUps |-> Len(ups),
                     up |-> IF upstreamOf(ups, st) = 0
                            THEN [linked |-> {}, nick |-> "", buffers |-> NoBuffers,
                                  netRegistered |-> FALSE]
                            ELSE [linked  |-> ups[upstreamOf(ups, st)].linked,
                                  nick    |-> ups[upstreamOf(ups, st)].nick,
                                  buffers |-> ups[upstreamOf(ups, st)].buffers,
                                  netRegistered |-> ups[upstreamOf(ups, st)].netRegistered]],
      calls     |-> <<>>,          \* run() invocations: [line, source]
      runs      |-> {},            \* run() returns: [source, verb, ret, netRegistered, capping]
      execd     |-> {},            \* handler invocations: [verb, source, capping, netRegistered]
      out       |-> <<>>,          \* lines written to the client: [from, words, saved]
      echo      |-> [d \in Downs |-> 0],   \* copies written to each downstream
      echoed    |-> {},            \* the copies: [from, words]
      stored    |-> <<>>,          \* storeMessage calls: [userId, networkId, words]
      mpr       |-> {},            \* maybeProcessRegistration invocations
      binds     |-> {},            \* upstream bindings: [how, capping, facts, upstream]
      authCalls |-> 0,             \* authUser / authUserNetwork calls
      made      |-> 0,             \* makeUpstream calls
      opened    |-> 0,             \* upstream.open calls
      burst     |-> 0,             \* registerClient / registerLocalClient calls
      shut      |-> 0,             \* upstream.close calls
      dels      |-> 0,             \* buffers removed from an upstream
      upOut     |-> <<>>,          \* lines written to an upstream
      handled   |-> {},            \* handlers that returned: [verb, source, line, before, after, ret]
      dbOk      |-> TRUE,          \* the persistence layer accepted every write
      result    |-> "none" ]       \* what the top-level run() returned

NewMachine(st, ups, row, isClosed, ok, seen) ==
    [ st |-> st, ups |-> ups, closed |-> isClosed, db |-> row, pend |-> <<>>,
      dirty |-> FALSE, dbOk |-> ok, err |-> FALSE, ret |-> "none",
      susp |-> NoSusp, obs |-> seen ]

\* the handler is still executing statements
Live(m) == ~m.err /\ m.susp.at = "idle"

Throw(m) == IF Live(m) THEN [m EXCEPT !.err = TRUE] ELSE m

Return(m, v) == IF Live(m) THEN [m EXCEPT !.ret = v] ELSE m

\* an assignment to a field of con.state
SetSt(m, st) == IF Live(m) THEN [m EXCEPT !.st = st, !.dirty = TRUE] ELSE m

\* ConnectionState.save() up to its await: the row is built from the fields as
\* they are now and the write is issued; it completes later
save(m) ==
    IF Live(m) THEN [m EXCEPT !.pend = Append(@, m.st), !.dirty = FALSE] ELSE m

\* await con.state.save(): the write (and those issued before it) completes, or
\* the persistence layer rejects it and the await throws
awaitSave(m) ==
    IF ~Live(m) THEN m
    ELSE IF m.dbOk
         THEN [m EXCEPT !.db = m.st, !.pend = <<>>, !.dirty = FALSE]
         ELSE [m EXCEPT !.pend = <<>>, !.dirty = FALSE, !.err = TRUE]

\* await con.state.tempSet(key, val) with a string key and a non-null value
tempSet(m, key, val) ==
    IF Live(m) THEN awaitSave(SetSt(m, tempPut(m.st, key, val, FALSE))) ELSE m

\* await con.state.tempSet(key, null)
tempDel(m, key) ==
    IF Live(m) THEN awaitSave(SetSt(m, tempPut(m.st, key, 0, TRUE))) ELSE m

\* con.writeMsg / writeMsgFrom / writeFromBnc: a line to the client; saved tells
\* whether every field assigned so far had been persisted when it was written
write(m, from, words) ==
    IF Live(m)
    THEN [m EXCEPT !.obs.out =
            Append(@, [from |-> from, words |-> words,
                       saved |-> ~m.dirty /\ m.pend = <<>>])]
    ELSE m

writeMsg(m, words) == write(m, "", words)

\* con.writeStatus(text): a PRIVMSG from the bouncer
writeStatus(m, text) == write(m, "*bnc", <<"PRIVMSG", m.st.nick, text>>)

\* con.close()
close(m) == IF Live(m) THEN [m EXCEPT !.closed = TRUE] ELSE m

\* reading con.upstream links the connection to the upstream it finds
linkUpstream(m, c) ==
    LET u == upstreamOf(m.ups, m.st)
    IN  IF Live(m) /\ u # 0
        THEN [m EXCEPT !.ups[u].linked = @ \cup {c}]
        ELSE m

\* con.makeUpstream(network): a new outgoing connection in the registry, linked
\* to this connection when it is the network the connection is logged into
makeUpstream(m, c, nid) ==
    IF ~Live(m) THEN m
    ELSE LET links == IF m.st.authNetworkId = nid THEN {c} ELSE {}
         IN  [m EXCEPT !.ups = Append(@, NewUpstream(NetworkById(nid), links)),
                       !.obs.made = @ + 1]

\* upstream.open(): dial; the transport reports the connection later
upstreamOpen(m, u) ==
    IF Live(m) THEN [m EXCEPT !.ups[u].dialing = TRUE, !.obs.opened = @ + 1] ELSE m

\* upstream.close()
upstreamClose(m, u) ==
    IF Live(m)
    THEN [m EXCEPT !.ups[u].connected = FALSE, !.ups[u].netRegistered = FALSE,
                   !.ups[u].dialing = FALSE, !.obs.shut = @ + 1]
    ELSE m

\* con.registerClient() / con.registerLocalClient(): the welcome burst; the
\* client is registered afterwards
registerClient(m) ==
    IF Live(m)
    THEN awaitSave(SetSt([m EXCEPT !.obs.burst = @ + 1],
                         [m.st EXCEPT !.netRegistered = TRUE]))
    ELSE m

\* upstream.forEachClient(f, exclude) with f writing words from the upstream's nick
forEachClientWrite(m, u, exclude, words) ==
    IF ~Live(m) THEN m
    ELSE LET to == m.ups[u].linked \ {exclude}
         IN  [m EXCEPT !.obs.echo = [d \in Downs |-> IF d \in to THEN @[d] + 1 ELSE @[d]],
                       !.obs.echoed = @ \cup {[to |-> d, from |-> m.ups[u].nick,
                                               words |-> words] : d \in to}]

\* await con.messages.storeMessage(userId, networkId, msg, state)
storeMessage(m, uid, nid, msg) ==
    IF Live(m)
    THEN [m EXCEPT !.obs.stored = Append(@, [userId |-> uid, networkId |-> nid,
                                            words |-> to1459(msg)])]
    ELSE m

\* ------------------------------------------------------------- the handlers
\* the caps the available_caps hooks offer
availableCaps == <<"server-time">>

\* Array.prototype.join
RECURSIVE join(_, _)
join(words, sep) ==
    IF Len(words) = 0 THEN ""
    ELSE IF Len(words) = 1 THEN words[1]
    ELSE words[1] \o sep \o join(Tail(words), sep)

\* Array.prototype.filter(cap => availableCaps.includes(cap))
RECURSIVE filterAvailable(_)
filterAvailable(requested) ==
    IF requested = <<>> THEN <<>>
    ELSE IF \E i \in 1..Len(availableCaps) : availableCaps[i] = Head(requested)
         THEN <<Head(requested)>> \o filterAvailable(Tail(requested))
         ELSE filterAvailable(Tail(requested))

\* PRIVMSG among the verbs accepted before registration
preRegisterCommands_privmsg == {"USER", "NICK", "PASS", "CAP", "PRIVMSG"}

\* the verbs run() accepts from a client that is not registered
preRegisterCommands == {"USER", "NICK", "PASS", "CAP"}

\* the keys of the commands table
commandNames == {"CAP", "PASS", "USER", "NOTICE", "PRIVMSG", "NICK", "PING", "QUIT",
                 "BOUNCER", "KILL", "RELOAD", "DEB"}

RECURSIVE run(_, _, _, _)

\* processConQueue, the while loop over messageQueue
RECURSIVE drainQueue(_, _, _)
drainQueue(m, c, messageQueue) ==
    IF ~Live(m) \/ Len(messageQueue) = 0 THEN m
    ELSE LET line == Head(messageQueue)
             m1   == tempSet(m, "reg.queue", Tail(messageQueue))
             msg  == ircLineParser(line)
         IN  IF Len(line) = 0 \/ msg.command = ""
             THEN drainQueue(m1, c, Tail(messageQueue))
             ELSE LET rest(m2) == drainQueue(m2, c, regQueue(m2.st))
                  IN  rest(run(m1, c, msg, "queue"))

processConQueue(m, c) == tempDel(drainQueue(m, c, regQueue(m.st)), "reg.queue")

\* CAP END returns what the last replayed line returned
commands_CAP_replayed(m, c, msg) ==
    LET sub == mParamU(msg, 0, "")
        caps == m.st.caps
        done ==
          CASE sub = "LIST" ->
                 \* con.state.caps.join: a Set has no join
                 IF caps.kind = "Array"
                 THEN writeMsg(m, <<"CAP", "*", "LIST", join(caps.elems, " ")>>)
                 ELSE Throw(m)
            [] sub = "LS" ->
                 writeMsg(tempSet(m, "capping", mParamU(msg, 1, "301")),
                          <<"CAP", "*", "LS", join(availableCaps, " ")>>)
            [] sub = "REQ" ->
                 LET matched == filterAvailable(split(mParam(msg, 1, "")))
                 IN  \* con.state.caps.concat: a Set has no concat
                     IF caps.kind = "Array"
                     THEN writeMsg(
                            awaitSave(SetSt(m, [m.st EXCEPT !.caps.elems = @ \o matched])),
                            <<"CAP", "*", "ACK", join(matched, " ")>>)
                     ELSE Throw(m)
            [] sub = "END" ->
                 tempDel(processConQueue(m, c), "capping")
            [] OTHER -> m
    IN  IF sub = "END" /\ Live(done) /\ done.ret # "none"
        THEN done
        ELSE Return(done, "false")

commands_CAP(m, c, msg) ==
    LET sub == mParamU(msg, 0, "")
        caps == m.st.caps
        done ==
          CASE sub = "LIST" ->
                 \* con.state.caps.join: a Set has no join
                 IF caps.kind = "Array"
                 THEN writeMsg(m, <<"CAP", "*", "LIST", join(caps.elems, " ")>>)
                 ELSE Throw(m)
            [] sub = "LS" ->
                 writeMsg(tempSet(m, "capping", mParamU(msg, 1, "301")),
                          <<"CAP", "*", "LS", join(availableCaps, " ")>>)
            [] sub = "REQ" ->
                 LET matched == filterAvailable(split(mParam(msg, 1, "")))
                 IN  \* con.state.caps.concat: a Set has no concat
                     IF caps.kind = "Array"
                     THEN writeMsg(
                            awaitSave(SetSt(m, [m.st EXCEPT !.caps.elems = @ \o matched])),
                            <<"CAP", "*", "ACK", join(matched, " ")>>)
                     ELSE Throw(m)
            [] sub = "END" ->
                 tempDel(processConQueue(m, c), "capping")
            [] OTHER -> m
    IN  Return(done, "false")

\* PASS is accepted after the login too
commands_PASS_always(m, c, msg) ==
    IF ~tempHas(m.st, "reg.state") THEN Throw(m)
    ELSE LET regState == [tempGet(m.st, "reg.state") EXCEPT !.pass = mParam(msg, 0, "")]
         IN  Return(tempSet(m, "reg.state", regState), "false")

commands_PASS(m, c, msg) ==
    IF m.st.authUserId # 0 THEN Return(m, "false")
    ELSE IF ~tempHas(m.st, "reg.state") THEN Throw(m)
    ELSE LET regState == [tempGet(m.st, "reg.state") EXCEPT !.pass = mParam(msg, 0, "")]
         IN  Return(tempSet(m, "reg.state", regState), "false")

commands_USER(m, c, msg) ==
    IF tempHas(m.st, "reg.state")
    THEN LET regState == [tempGet(m.st, "reg.state") EXCEPT !.user = mParam(msg, 0, "")]
         IN  Return(tempSet(m, "reg.state", regState), "false")
    ELSE Return(m, "false")

\* the copy goes to every client of the upstream, the sender included
echoToClients_all(m, c, verb, msg) ==
    LET m0 == linkUpstream(m, c)
        u  == upstreamOf(m0.ups, m0.st)
    IN  IF u # 0
        THEN forEachClientWrite(m0, u, "", <<verb, mParam(msg, 0, ""), mParam(msg, 1, "")>>)
        ELSE m0

\* NOTICE and PRIVMSG: the copy to the other clients of the upstream
echoToClients(m, c, verb, msg) ==
    LET m0 == linkUpstream(m, c)
        u  == upstreamOf(m0.ups, m0.st)
    IN  IF u # 0
        THEN forEachClientWrite(m0, u, c, <<verb, mParam(msg, 0, ""), mParam(msg, 1, "")>>)
        ELSE m0

\* NOTICE and PRIVMSG: the record in the message store
storeForUpstream(m, msg) ==
    LET u == upstreamOf(m.ups, m.st)
    IN  IF u # 0
        THEN storeMessage(m, m.ups[u].userId, m.ups[u].networkId, msg)
        ELSE m

\* NOTICE ends with return true, as PRIVMSG does
commands_NOTICE_forward(m, c, msg) ==
    Return(storeForUpstream(echoToClients(m, c, "NOTICE", msg), msg), "true")

commands_NOTICE(m, c, msg) ==
    Return(storeForUpstream(echoToClients(m, c, "NOTICE", msg), msg), "undefined")

commands_PRIVMSG(m, c, msg) ==
    LET m1 == echoToClients(m, c, "PRIVMSG", msg)
    IN  IF mParam(msg, 0, "") = "*bnc" /\ m1.st.authUserId # 0
        THEN Return(m1, "false")          \* ClientControl.run(msg, con)
        ELSE Return(storeForUpstream(m1, msg), "true")

commands_NICK(m, c, msg) ==
    LET m0 == linkUpstream(m, c)
        u  == upstreamOf(m0.ups, m0.st)
    IN  IF u # 0 /\ ~m0.ups[u].netRegistered THEN Return(m0, "undefined")
        ELSE IF ~m0.st.netRegistered
        THEN LET nick == mParam(msg, 0, "")
                 m1 == save(SetSt(m0, [m0.st EXCEPT !.nick = nick]))
                 m2 == write(m1, nick, <<"NICK", nick>>)
                 m3 == IF tempHas(m2.st, "reg.state")
                       THEN tempSet(m2, "reg.state",
                                    [tempGet(m2.st, "reg.state") EXCEPT !.nick = nick])
                       ELSE m2
                 m4 == write(m3, "bnc", <<"464", nick, "Password required">>)
                 m5 == write(m4, "*bnc", <<"NOTICE", nick, "You must send your password first">>)
             IN  Return(m5, "false")
        ELSE Return(m0, "true")

commands_PING(m, c, msg) ==
    Return(writeMsg(m, <<"PONG", mParam(msg, 0, "")>>), "false")

commands_QUIT(m, c, msg) == Return(close(m), "false")

\* BOUNCER CONNECT after getNetworkByName has answered with a network
bouncerConnect(m, c, nid) ==
    LET u == findUsersOutgoingConnection(m.ups, m.st.authUserId, nid)
    IN  IF u # 0 /\ ~m.ups[u].connected THEN upstreamOpen(m, u)
        ELSE IF u = 0 THEN makeUpstream(m, c, nid)
        ELSE m

\* BOUNCER DISCONNECT after getNetworkByName has answered with a network
bouncerDisconnect(m, c, nid) ==
    LET u == findUsersOutgoingConnection(m.ups, m.st.authUserId, nid)
    IN  IF u # 0 /\ m.ups[u].connected THEN upstreamClose(m, u) ELSE m

\* a top-level handler yields at the await; a replayed line runs to its end
\* inside the step that drains the queue
suspend(m, at, nid) == IF Live(m) THEN [m EXCEPT !.susp = [at |-> at, net |-> nid]] ELSE m

\* BOUNCER LISTNETWORKS: one line for each network, then the terminator
RECURSIVE listNetworks(_, _)
listNetworks(m, nets) ==
    IF nets = <<>> THEN writeMsg(m, <<"BOUNCER", "listnetwork", "RPL_OK">>)
    ELSE LET net    == Head(nets)
             netCon == findUsersOutgoingConnection(m.ups, m.st.authUserId, net.id)
             parts  == << "network=" \o net.name, "host=" \o net.host, "port=" \o net.port,
                          \* 'tls=' + net.tls ? '1' : '0' is ('tls=' + net.tls) ? '1' : '0'
                          "1", "host=" \o net.host,
                          IF netCon # 0
                          THEN (IF m.ups[netCon].connected THEN "state=connected"
                                                         ELSE "state=disconnected")
                          ELSE "state=disconnect" >>
         IN  listNetworks(writeMsg(m, <<"BOUNCER", "listnetworks", join(parts, ";")>>),
                          Tail(nets))

\* the members of ConnectionState that have to do with buffers
ConnectionStateMembers ==
    {"buffers", "getOrAddBuffer", "getBuffer", "addBuffer", "delBuffer", "renameBuffer"}

\* upstream.writeLine(words)
upstreamWriteLine(m, u, words) ==
    IF Live(m) THEN [m EXCEPT !.obs.upOut = Append(@, words)] ELSE m

\* BOUNCER LISTBUFFERS with a network: for (chanName in upstream.state.channels)
\* runs over no property when the state has no member channels
bouncerListBuffers(m, c, nid) ==
    LET u    == findUsersOutgoingConnection(m.ups, m.st.authUserId, nid)
        name == NetworkById(nid).name
        RECURSIVE each(_, _)
        each(mm, keys) ==
            IF keys = {} THEN mm
            ELSE LET k == CHOOSE x \in keys : TRUE
                     b == mm.ups[u].buffers[k]
                 IN  each(writeMsg(mm, <<"BOUNCER", "listbuffers", name,
                                         join(<<"network=" \o name, "buffer=" \o b.name,
                                                IF b.joined THEN "joined=1" ELSE "joined=0",
                                                "topic=" \o b.topic>>, ";")>>),
                          keys \ {k})
        listed == IF u # 0 /\ "channels" \in ConnectionStateMembers
                  THEN each(m, DOMAIN m.ups[u].buffers)
                  ELSE m
    IN  writeMsg(listed, <<"BOUNCER", "listbuffers", name, "RPL_OK">>)

\* BOUNCER DELBUFFER with a network and a buffer name
bouncerDelBuffer(m, c, nid, bufferName) ==
    LET u    == findUsersOutgoingConnection(m.ups, m.st.authUserId, nid)
        name == NetworkById(nid).name
        ok   == <<"BOUNCER", "delbuffer", name, bufferName, "RPL_OK">>
        key  == toLowerCase(bufferName)
    IN  IF u = 0 THEN writeMsg(m, ok)
        \* upstream.state.getChannel is not a function
        ELSE IF "getChannel" \notin ConnectionStateMembers THEN Throw(m)
        \* no buffer: the reply, then buffer.name of undefined
        ELSE IF key \notin DOMAIN m.ups[u].buffers THEN Throw(writeMsg(m, ok))
        ELSE LET buffer == m.ups[u].buffers[key]
                 m1 == [m EXCEPT !.ups[u].buffers =
                            [k \in (DOMAIN @) \ {toLowerCase(buffer.name)} |-> @[k]],
                                 !.obs.dels = @ + 1]
                 m2 == IF buffer.joined THEN upstreamWriteLine(m1, u, <<"PART", buffer.name>>)
                       ELSE m1
             IN  writeMsg(m2, ok)

\* the BOUNCER sub-commands that take a network name, and their names in replies
netSubCmds == {"CONNECT", "DISCONNECT", "LISTBUFFERS", "DELBUFFER"}

replyName(subCmd) ==
    CASE subCmd = "CONNECT"     -> "connect"
      [] subCmd = "DISCONNECT"  -> "disconnect"
      [] subCmd = "LISTBUFFERS" -> "listbuffers"
      [] subCmd = "DELBUFFER"   -> "delbuffer"

\* the network name alone is required
argsMissing_netOnly(subCmd, netName, bufferName) == netName = ""

\* !netName, and for DELBUFFER !netName || !bufferName
argsMissing(subCmd, netName, bufferName) ==
    netName = "" \/ (subCmd = "DELBUFFER" /\ bufferName = "")

commands_BOUNCER(m, c, msg, source) ==
    LET subCmd     == mParamU(msg, 0, "")
        netName    == mParam(msg, 1, "")
        bufferName == mParam(msg, 2, "")
        nid        == getNetworkByName(m.st.authUserId, netName)
        done ==
          IF subCmd \in netSubCmds
          THEN IF argsMissing(subCmd, netName, bufferName)
               THEN writeMsg(m, <<"BOUNCER", replyName(subCmd), "*", "ERR_INVALIDARGS">>)
               ELSE IF nid = 0
               THEN writeMsg(m, <<"BOUNCER", replyName(subCmd), "*", "ERR_NETNOTFOUND">>)
               ELSE CASE subCmd = "DISCONNECT"  -> bouncerDisconnect(m, c, nid)
                      [] subCmd = "LISTBUFFERS" -> bouncerListBuffers(m, c, nid)
                      [] subCmd = "DELBUFFER"   -> bouncerDelBuffer(m, c, nid, bufferName)
                      [] OTHER -> IF source = "queue" THEN bouncerConnect(m, c, nid)
                                  ELSE suspend(m, "connect", nid)
          ELSE IF subCmd = "LISTNETWORKS"
          THEN listNetworks(m, getUserNetworks(m.st.authUserId))
          ELSE m
    IN  Return(done, "false")

\* what a handler that returned did to the connection state, and its result
noteHandled(r, m, command, msg, source) ==
    IF Live(r)
    THEN [r EXCEPT !.obs.handled = @ \cup {[verb |-> command, source |-> source,
                                            line |-> to1459(msg),
                                            before |-> m.st, after |-> r.st,
                                            ret |-> r.ret]}]
    ELSE r

\* commands[command](msg, con)
commands(m, c, command, msg, source) ==
    IF ~Live(m) THEN m
    ELSE LET m0 == [m EXCEPT !.obs.execd = @ \cup {[verb |-> command, source |-> source,
                                                    capping |-> capping(m.st),
                                                    netRegistered |-> m.st.netRegistered]}]
             r  == CASE command = "CAP"     -> commands_CAP(m0, c, msg)
                     [] command = "PASS"    -> commands_PASS(m0, c, msg)
                     [] command = "USER"    -> commands_USER(m0, c, msg)
                     [] command = "NOTICE"  -> commands_NOTICE(m0, c, msg)
                     [] command = "PRIVMSG" -> commands_PRIVMSG(m0, c, msg)
                     [] command = "NICK"    -> commands_NICK(m0, c, msg)
                     [] command = "PING"    -> commands_PING(m0, c, msg)
                     [] command = "QUIT"    -> commands_QUIT(m0, c, msg)
                     [] command = "BOUNCER" -> commands_BOUNCER(m0, c, msg, source)
                     [] OTHER               -> Return(m0, "false")   \* KILL, RELOAD, DEB
         IN  noteHandled(r, m, command, msg, source)

\* ---------------------------------------------------------- registration
\* what an observer can compare before and after a call
Core(m) == [st |-> m.st, ups |-> m.ups, closed |-> m.closed, db |-> m.db, out |-> m.obs.out]

\* reg.state as the three conditions of the guard
regFacts(st) ==
    IF tempHas(st, "reg.state")
    THEN [nick |-> tempGet(st, "reg.state").nick # "",
          user |-> tempGet(st, "reg.state").user # "",
          pass |-> tempGet(st, "reg.state").pass # ""]
    ELSE [nick |-> FALSE, user |-> FALSE, pass |-> FALSE]

\* the upstream of the connection as the binder finds it
upstreamFact(m) ==
    LET u == upstreamOf(m.ups, m.st)
    IN  IF u = 0 THEN "none"
        ELSE IF m.ups[u].connected
        THEN (IF m.ups[u].netRegistered THEN "registered" ELSE "connected")
        ELSE "disconnected"

noteBind(m, before, how) ==
    IF Live(m)
    THEN [m EXCEPT !.obs.binds = @ \cup {[how |-> how, capping |-> capping(before.st),
                                          facts |-> regFacts(before.st),
                                          upstream |-> upstreamFact(before)]}]
    ELSE m

\* the welcome burst whether or not the upstream is registered
attachClient_always(m, u) == registerClient(m)

\* if (con.upstream.state.netRegistered) await con.registerClient()
attachClient(m, u) == IF m.ups[u].netRegistered THEN registerClient(m) ELSE m

\* the binder makes an upstream without looking for an existing one
mprBind_blind(m, c, nid) ==
    IF ~Live(m) \/ capping(m.st) THEN m
    ELSE LET m0 == linkUpstream(m, c)
             bound ==
               IF nid # 0
               THEN noteBind(writeStatus(makeUpstream(m0, c, nid),
                                         "Connecting to the network.."), m, "make")
               ELSE noteBind(registerClient(writeStatus(m0, "Welcome to your BNC!")), m, "local")
         IN  tempDel(bound, "reg.state")

\* maybeProcessRegistration after await con.state.save(): bind the upstream.
\* nid is the network that was logged into, 0 for a user-only login.
mprBind(m, c, nid) ==
    IF ~Live(m) \/ capping(m.st) THEN m
    ELSE LET m0 == linkUpstream(m, c)
             u  == upstreamOf(m0.ups, m0.st)
             bound ==
               IF nid # 0
               THEN IF u = 0
                    THEN noteBind(writeStatus(makeUpstream(m0, c, nid),
                                              "Connecting to the network.."), m, "make")
                    ELSE IF ~m0.ups[u].connected
                    THEN noteBind(upstreamOpen(writeStatus(m0, "Connecting to the network.."), u),
                                  m, "open")
                    ELSE LET m1 == writeStatus(m0, "Attaching you to the network")
                         IN  noteBind(attachClient(m1, u), m, "attach")
               ELSE noteBind(registerClient(writeStatus(m0, "Welcome to your BNC!")), m, "local")
         IN  tempDel(bound, "reg.state")

noteMpr(m, before) ==
    [m EXCEPT !.obs.mpr = @ \cup {[facts   |-> regFacts(before.st),
                                   capping |-> capping(before.st),
                                   called  |-> m.obs.authCalls > before.obs.authCalls,
                                   changed |-> Core(m) # Core(before)]}]

\* the error line without the close
invalidPassword_noClose(m) == writeMsg(m, <<"ERROR", "Invalid password">>)

\* con.writeMsg('ERROR', 'Invalid password'); con.close()
invalidPassword(m) == close(writeMsg(m, <<"ERROR", "Invalid password">>))

\* the password and the network name passed in each other's place
authLookup_swapped(pass) ==
    LET found(pm, nid) ==
          [called |-> TRUE, networkName |-> pm.m2,
           uid |-> IF nid = 0 THEN 0 ELSE NetworkById(nid).user_id, nid |-> nid]
        looked(pm) ==
          IF ~pm.ok THEN [called |-> FALSE, networkName |-> "", uid |-> 0, nid |-> 0]
          ELSE IF pm.m2 # ""
          THEN found(pm, authUserNetwork(pm.m1, pm.m2, pm.m3))
          ELSE [called |-> TRUE, networkName |-> "", uid |-> authUser(pm.m1, pm.m3), nid |-> 0]
    IN  looked(PassMatch(Chars(pass)))

\* the PASS argument matched against the pattern and looked up in the
\* credential store: whether a store was called, the network name that
\* was given, the user id (0: rejected) and the network id
authLookup(pass) ==
    LET found(pm, nid) ==
          [called |-> TRUE, networkName |-> pm.m2,
           uid |-> IF nid = 0 THEN 0 ELSE NetworkById(nid).user_id, nid |-> nid]
        looked(pm) ==
          IF ~pm.ok THEN [called |-> FALSE, networkName |-> "", uid |-> 0, nid |-> 0]
          ELSE IF pm.m2 # ""
          THEN found(pm, authUserNetwork(pm.m1, pm.m3, pm.m2))
          ELSE [called |-> TRUE, networkName |-> "", uid |-> authUser(pm.m1, pm.m3), nid |-> 0]
    IN  looked(PassMatch(Chars(pass)))

\* the guard without the capping condition
regIncomplete_noCapping(st) ==
    \/ tempGet(st, "reg.state").nick = ""
    \/ tempGet(st, "reg.state").user = ""
    \/ tempGet(st, "reg.state").pass = ""

\* the guard of maybeProcessRegistration
regIncomplete(st) ==
    \/ tempGet(st, "reg.state").nick = ""
    \/ tempGet(st, "reg.state").user = ""
    \/ tempGet(st, "reg.state").pass = ""
    \/ capping(st)

maybeProcessRegistration(m, c, source) ==
    IF ~Live(m) THEN m
    ELSE IF ~tempHas(m.st, "reg.state") THEN Throw(m)
    ELSE IF regIncomplete(m.st) THEN noteMpr(m, m)
    ELSE LET saved(a, m2) ==
               IF ~Live(m2) THEN m2
               ELSE IF source = "queue" THEN noteMpr(mprBind(m2, c, a.nid), m)
               ELSE suspend(noteMpr(m2, m), "bind", a.nid)
             authed(a, m1) ==
               IF a.uid = 0 THEN noteMpr(invalidPassword(m1), m)
               ELSE saved(a, awaitSave(SetSt(m1,
                         IF a.networkName # ""
                         THEN [m1.st EXCEPT !.authUserId = a.uid, !.authNetworkId = a.nid]
                         ELSE [m1.st EXCEPT !.authUserId = a.uid])))
             looked(a) ==
               authed(a, IF a.called THEN [m EXCEPT !.obs.authCalls = @ + 1] ELSE m)
         IN  looked(authLookup(tempGet(m.st, "reg.state").pass))

\* ----------------------------------------------------------------- run
noteReturn(m, command, source) ==
    IF Live(m)
    THEN [m EXCEPT !.obs.runs = @ \cup {[source |-> source, verb |-> command, ret |-> m.ret,
                                         netRegistered |-> m.st.netRegistered,
                                         capping |-> capping(m.st)]}]
    ELSE m

\* PRIVMSG among the verbs that are always executed
alwaysCommands_privmsg == {"DEB", "RELOAD", "PING", "PRIVMSG"}

\* the verbs run() executes before it looks at the state of the connection
alwaysCommands == {"DEB", "RELOAD", "PING"}

\* unshift in place of push
push_front(messageQueue, line) == <<line>> \o messageQueue

\* messageQueue.push(msg.to1459())
push(messageQueue, line) == Append(messageQueue, line)

\* the CAP gate left out
cappingGate_off(st, command, source) == FALSE

\* the CAP gate of run()
cappingGate(st, command, source) ==
    capping(st) /\ command # "CAP" /\ source # "queue"

run(m, c, msg, source) ==
    IF ~Live(m) THEN m
    ELSE
    LET command == toUpperCase(msg.command)
        m0 == [m EXCEPT !.obs.calls = Append(@, [line |-> to1459(msg), source |-> source])]
        done ==
          IF command \in alwaysCommands
          THEN commands(m0, c, command, msg, source)
          ELSE IF cappingGate(m0.st, command, source)
          THEN Return(tempSet(m0, "reg.queue", push(regQueue(m0.st), to1459(msg))), "false")
          ELSE IF ~m0.st.netRegistered
          THEN IF command \notin preRegisterCommands
               THEN Return(m0, "false")
               ELSE LET m1 == IF ~tempHas(m0.st, "reg.state")
                              THEN tempSet(m0, "reg.state", [nick |-> "", user |-> "", pass |-> ""])
                              ELSE m0
                        m2 == commands(m1, c, command, msg, source)
                    IN  Return(maybeProcessRegistration(m2, c, source), "false")
          ELSE IF command \in commandNames
          THEN commands(m0, c, command, msg, source)
          ELSE Return(m0, "true")
    IN  noteReturn(done, command, source)

\* ------------------------------------------- the record of a connection state
\* The data-model fields of a ConnectionState.  A buffer is an IrcBuffer object:
\* id tells one object from another and is not one of its attributes.
NULL == "null"

NewRecord ==
    [ bindHost  |-> "",
      host      |-> "",
      port      |-> 6667,
      tls       |-> FALSE,
      tlsverify |-> TRUE,
      sasl      |-> [account |-> "", password |-> ""],
      username  |-> "user",
      realname  |-> "BNC user",
      password  |-> "",
      authNetworkName |-> "",
      nick      |-> "unknown-user",
      connected |-> FALSE,
      caps      |-> {},
      registrationLines |-> <<>>,
      isupports |-> <<>>,
      logging   |-> TRUE,
      buffers   |-> NoBuffers,
      linkedIncomingConIds |-> {},
      tempData  |-> NoTemp,
      loaded    |-> FALSE ]

\* upstreamCon.isChannelName(name)
isChannelName(name) == name \in {"#a", "#A", "#Foo", "#foo", "#FOO"}

\* an id that no buffer of the record has
freshId(bufs) ==
    CHOOSE i \in 1..(Cardinality(DOMAIN bufs) + 1) : \A k \in DOMAIN bufs : bufs[k].id # i

\* new IrcBuffer(name, upstreamCon)
IrcBuffer(id, name, withUpstream) ==
    [ id |-> id, name |-> name, key |-> "", joined |-> FALSE, topic |-> "",
      isChannel |-> IF withUpstream THEN isChannelName(name) ELSE TRUE,
      lastSeen |-> 0 ]

\* IrcBuffer.fromObj(obj)
fromObj(id, obj) ==
    [IrcBuffer(id, obj.name, FALSE) EXCEPT
        !.key = obj.key, !.joined = obj.joined, !.topic = obj.topic,
        !.isChannel = obj.isChannel]

\* getBuffer(name): the key it is found under, "" when it is not
getBuffer(cs, name) ==
    IF toLowerCase(name) \in DOMAIN cs.buffers THEN toLowerCase(name) ELSE ""

\* this.buffers[key] = buffer
putBuffer(cs, key, buffer) ==
    [cs EXCEPT !.buffers = (key :> buffer) @@ @]

\* delete this.buffers[key]
dropBuffer(cs, key) ==
    [cs EXCEPT !.buffers = [k \in (DOMAIN @) \ {key} |-> @[k]]]

\* addBuffer(chan, upstreamCon) with a string
addBuffer(cs, name, withUpstream) ==
    LET buffer == IrcBuffer(freshId(cs.buffers), name, withUpstream)
    IN  putBuffer(cs, toLowerCase(buffer.name), buffer)

\* addBuffer(chan) with an object, as load() calls it
addBufferObj(cs, obj) ==
    LET buffer == fromObj(freshId(cs.buffers), obj)
    IN  putBuffer(cs, toLowerCase(buffer.name), buffer)

\* delBuffer(name)
delBuffer(cs, name) == dropBuffer(cs, toLowerCase(name))

\* the buffer is stored under the new key and stays under the old one
renameBuffer_keepOld(cs, oldName, newName) ==
    IF getBuffer(cs, oldName) = "" \/ getBuffer(cs, newName) # "" THEN cs
    ELSE LET oldBuffer == cs.buffers[getBuffer(cs, oldName)]
         IN  putBuffer(cs, toLowerCase(newName), [oldBuffer EXCEPT !.name = newName])

\* renameBuffer(oldName, newName)
renameBuffer(cs, oldName, newName) ==
    IF getBuffer(cs, oldName) = "" \/ getBuffer(cs, newName) # "" THEN cs
    ELSE LET oldBuffer == cs.buffers[getBuffer(cs, oldName)]
         IN  putBuffer(dropBuffer(cs, toLowerCase(oldName)),
                       toLowerCase(newName), [oldBuffer EXCEPT !.name = newName])

\* JSON.stringify of an IrcBuffer: its own properties
bufferJson(b) ==
    [ name |-> b.name, key |-> b.key, joined |-> b.joined, topic |-> b.topic,
      isChannel |-> b.isChannel, lastSeen |-> b.lastSeen ]

\* the row save() writes
toRow(cs) ==
    [ bind_host |-> "",
      host      |-> cs.host,
      port      |-> cs.port,
      tls       |-> cs.tls,
      tlsverify |-> cs.tlsverify,
      sasl      |-> cs.sasl,
      username  |-> cs.username,
      realname  |-> cs.realname,
      password  |-> cs.password,
      auth_network_name |-> cs.authNetworkName,
      nick      |-> cs.nick,
      connected |-> cs.connected,
      caps      |-> cs.caps,
      registration_lines |-> cs.registrationLines,
      isupports |-> cs.isupports,
      logging   |-> cs.logging,
      buffers   |-> [k \in DOMAIN cs.buffers |-> bufferJson(cs.buffers[k])],
      linked_con_ids |-> cs.linkedIncomingConIds,
      temp      |-> cs.tempData ]

\* load(): for (let chanName in rowChans) this.addBuffer(rowChans[chanName])
RECURSIVE addRowChans(_, _, _)
addRowChans(cs, rowChans, names) ==
    IF names = {} THEN cs
    ELSE LET chanName == CHOOSE k \in names : TRUE
         IN  addRowChans(addBufferObj(cs, rowChans[chanName]), rowChans, names \ {chanName})

NoRow == [none |-> TRUE]

\* load() with the row of the connection, NoRow when there is none
ConnectionState_load(cs, row) ==
    IF row = NoRow
    THEN [cs EXCEPT !.registrationLines = <<>>, !.isupports = <<>>, !.caps = {},
                    !.buffers = NoBuffers, !.tempData = NoTemp, !.logging = TRUE,
                    !.loaded = TRUE]
    ELSE addRowChans([cs EXCEPT !.bindHost = row.bind_host,
                                !.host = row.host,
                                !.port = row.port,
                                !.tls = row.tls,
                                !.tlsverify = row.tlsverify,
                                !.sasl = row.sasl,
                                !.username = row.username,
                                !.realname = row.realname,
                                !.password = row.password,
                                !.authNetworkName = row.auth_network_name,
                                !.connected = row.connected,
                                !.registrationLines = row.registration_lines,
                                !.isupports = row.isupports,
                                !.caps = row.caps,
                                !.buffers = NoBuffers,
                                !.nick = row.nick,
                                !.linkedIncomingConIds = row.linked_con_ids,
                                !.logging = row.logging,
                                !.tempData = row.temp,
                                !.loaded = TRUE],
                     row.buffers, DOMAIN row.buffers)

\* the assignments of tempSet(key, val): key is a string, an object or neither
RECURSIVE putProps(_, _, _)
putProps(cs, map, props) ==
    IF props = {} THEN cs
    ELSE LET prop == CHOOSE k \in props : TRUE
         IN  putProps(tempPut(cs, prop, map[prop], map[prop] = NULL), map, props \ {prop})

\* every entry of the mapping is stored as a value, null included
ConnectionState_tempSet_noDelete(cs, key) ==
    CASE key.type = "string" -> tempPut(cs, key.name, key.val, FALSE)
      [] key.type = "object" ->
           [cs EXCEPT !.tempData = [k \in DOMAIN key.map |-> key.map[k]] @@ @]
      [] OTHER -> cs

ConnectionState_tempSet(cs, key) ==
    CASE key.type = "string" -> tempPut(cs, key.name, key.val, key.val = NULL)
      [] key.type = "object" -> putProps(cs, key.map, DOMAIN key.map)
      [] OTHER -> cs

\* linkIncomingConnection(id) / unlinkIncomingConnection(id), before the save
linkIncomingConnection(cs, id) == [cs EXCEPT !.linkedIncomingConIds = @ \cup {id}]

unlinkIncomingConnection(cs, id) == [cs EXCEPT !.linkedIncomingConIds = @ \ {id}]

\* what db.users.getNetwork and the user query answer to loadConnectionInfo
NetInfos ==
    { [found |-> TRUE,  bind_host |-> "10.0.0.9", user_bind_host |-> "", name |-> "freenode",
       host |-> "irc.freenode.net", port |-> 6697, tls |-> TRUE, tlsverify |-> TRUE,
       sasl_account |-> "alice", sasl_pass |-> "s3", nick |-> "alice_fn",
       username |-> "alice", realname |-> "Alice", password |-> "pw"],
      [found |-> TRUE,  bind_host |-> "", user_bind_host |-> "10.0.0.4", name |-> "freenode",
       host |-> "irc.freenode.net", port |-> 6667, tls |-> FALSE, tlsverify |-> FALSE,
       sasl_account |-> "", sasl_pass |-> "", nick |-> "alice_fn",
       username |-> "", realname |-> "", password |-> ""],
      [found |-> TRUE,  bind_host |-> "", user_bind_host |-> "", name |-> "oftc",
       host |-> "irc.oftc.net", port |-> 6697, tls |-> TRUE, tlsverify |-> FALSE,
       sasl_account |-> "", sasl_pass |-> "", nick |-> "al",
       username |-> "alice", realname |-> "", password |-> ""],
      [found |-> FALSE] }

\* a || b on strings
orElse(a, b) == IF a # "" THEN a ELSE b

\* loadConnectionInfo()
loadConnectionInfo(cs, net) ==
    IF net.found
    THEN [cs EXCEPT !.bindHost = orElse(net.bind_host, net.user_bind_host),
                    !.host = net.host,
                    !.port = net.port,
                    !.tls = net.tls,
                    !.tlsverify = net.tlsverify,
                    !.sasl = [account |-> net.sasl_account, password |-> net.sasl_pass],
                    !.authNetworkName = net.name,
                    !.nick = IF ~cs.connected THEN net.nick ELSE @,
                    !.username = orElse(net.username, "kiwibnc"),
                    !.realname = orElse(net.realname, "kiwibnc"),
                    !.password = net.password]
    ELSE [cs EXCEPT !.bindHost = "",
                    !.host = "",
                    !.port = 0,
                    !.tls = FALSE,
                    !.sasl = [account |-> "", password |-> ""],
                    !.nick = IF ~cs.connected THEN "" ELSE @,
                    !.username = "",
                    !.realname = "",
                    !.password = ""]

\* ------------------------------------------------------------- the system
VARIABLES
    state,      \* state[c]: the ConnectionState of downstream c
    ups,        \* the outgoing connections of the registry, in creation order
    closed,     \* closed[c]: con.close() was called on downstream c
    db,         \* db[c]: the row of the connections table for downstream c
    pc,         \* pc[c]: where the handler of downstream c stands
    obs,        \* obs[c]: what was seen of the last dispatch on downstream c
    scen,       \* scen[c]: how far c has followed HappyPath, -1 once it left it
    store       \* a ConnectionState under its own operations, and its row

vars == <<state, ups, closed, db, pc, obs, scen, store>>

\* what the last operation on the record did
NoOp == [op |-> "none", saves |-> 0, key |-> [type |-> "none"], before |-> NoTemp,
         direct |-> FALSE, was |-> NewRecord, net |-> [found |-> FALSE]]

\* cs: the record in memory; snap: the record as it was at the last save(),
\* NoRow before the first; clean: no field was assigned since that save()
NewStore == [cs |-> NewRecord, snap |-> [none |-> TRUE], clean |-> FALSE, last |-> NoOp]

\* spec.md, scenario 1
HappyPath == << <<"CAP", "LS", "302">>, <<"NICK", "bob">>, <<"USER", "bob", "0", "*", "Bob">>,
                <<"PASS", "alice/freenode:s3cret">>, <<"CAP", "END">> >>

\* the lines a client sends
Lines ==
    { <<"CAP", "LS", "302">>, <<"CAP", "END">>, <<"CAP", "REQ", "server-time bogus">>,
      <<"NICK", "bob">>, <<"USER", "bob", "0", "*", "Bob">>,
      <<"PING", "tok">>, <<"JOIN", "#foo">>,
      <<"PRIVMSG", "#x", "hi">>, <<"PRIVMSG", "*bnc", "hi">>,
      <<"BOUNCER", "CONNECT", "freenode">> }
    \cup { <<"PASS", p>> : p \in PassArgs }

\* the lines a client sends between CAP LS and CAP END
CapLines ==
    { <<"CAP", "LS", "302">>, <<"CAP", "END">>, <<"CAP", "REQ", "server-time bogus">>,
      <<"NICK", "bob">>, <<"USER", "bob", "0", "*", "Bob">>,
      <<"PASS", "alice/freenode:s3cret">>, <<"PASS", ":">>,
      <<"PING", "tok">>, <<"JOIN", "#foo">>, <<"PRIVMSG", "#x", "hi">> }

\* the lines a client sends in the state st
LinesIn(st) == IF capping(st) THEN CapLines ELSE Lines

\* the lines of two clients of the same user that have sent NICK and USER
PairLines(c) ==
    IF c = "d1"
    THEN { <<"CAP", "LS", "302">>, <<"CAP", "END">>, <<"PASS", "alice/freenode:s3cret">>,
           <<"PRIVMSG", "#x", "hi">>, <<"BOUNCER", "CONNECT", "freenode">> }
    ELSE { <<"PASS", "alice/freenode:s3cret">>, <<"BOUNCER", "CONNECT", "freenode">> }

Init ==
    /\ state = [c \in Downs |-> NewState]
    /\ ups = <<>>
    /\ closed = [c \in Downs |-> FALSE]
    /\ db = [c \in Downs |-> NewState]
    /\ pc = [c \in Downs |-> NoSusp]
    /\ obs = [c \in Downs |-> NewObs(<<>>, NewState, <<>>)]
    /\ scen = [c \in Downs |-> 0]
    /\ store = NewStore

\* save() calls that were not awaited complete in the background
finish(m) ==
    IF m.pend # <<>> /\ m.dbOk
    THEN [m EXCEPT !.db = m.pend[Len(m.pend)], !.pend = <<>>]
    ELSE [m EXCEPT !.pend = <<>>]

resultOf(m) == IF m.err THEN "threw" ELSE IF m.susp.at # "idle" THEN "pending" ELSE m.ret

\* the step of a handler leaves the machine m
Commit(c, m) ==
    /\ Len(regQueue(m.st)) <= MaxQueue
    /\ Len(m.ups) <= MaxUps
    /\ state' = [state EXCEPT ![c] = m.st]
    /\ ups' = m.ups
    /\ closed' = [closed EXCEPT ![c] = m.closed]
    /\ db' = [db EXCEPT ![c] = m.db]
    /\ pc' = [pc EXCEPT ![c] = m.susp]
    /\ obs' = [obs EXCEPT ![c] = [m.obs EXCEPT !.result = resultOf(m), !.post = m.st,
                                             !.dbOk = @ /\ m.dbOk]]
    /\ UNCHANGED store

\* a line of downstream c is parsed and dispatched: run(msg, con) up to its
\* return or to the await it yields at
Dispatch(c, line, ok) ==
    /\ pc[c].at = "idle"
    /\ ~closed[c]
    /\ Commit(c, finish(run(NewMachine(state[c], ups, db[c], closed[c], ok,
                                       NewObs(line, state[c], ups)),
                            c, ircLineParser(line), "socket")))
    /\ scen' = [scen EXCEPT ![c] = IF @ \in 0..(Len(HappyPath) - 1) /\ line = HappyPath[@ + 1]
                                   THEN @ + 1 ELSE -1]

\* maybeProcessRegistration resumes after await con.state.save(), and run() returns
ResumeBind(c, ok) ==
    /\ pc[c].at = "bind"
    /\ LET m0 == NewMachine(state[c], ups, db[c], closed[c], ok, obs[c])
           m1 == Return(mprBind(m0, c, pc[c].net), "false")
       IN  Commit(c, finish(noteReturn(m1, toUpperCase(Head(obs[c].line)), "socket")))
    /\ UNCHANGED scen

\* BOUNCER CONNECT resumes after await getNetworkByName(), and run() returns
ResumeConnect(c, ok) ==
    /\ pc[c].at = "connect"
    /\ LET m0 == NewMachine(state[c], ups, db[c], closed[c], ok, obs[c])
           m1 == Return(bouncerConnect(m0, c, pc[c].net), "false")
       IN  Commit(c, finish(noteReturn(m1, toUpperCase(Head(obs[c].line)), "socket")))
    /\ UNCHANGED scen

\* the transport of outgoing connection u reports that it is connected
UpstreamConnected(u) ==
    /\ ups[u].dialing
    /\ ups' = [ups EXCEPT ![u].dialing = FALSE, ![u].connected = TRUE]
    /\ UNCHANGED <<state, closed, db, pc, obs, scen, store>>

\* the network accepts outgoing connection u; every linked client is registered
UpstreamRegistered(u) ==
    /\ ups[u].connected
    /\ ~ups[u].netRegistered
    /\ ups' = [ups EXCEPT ![u].netRegistered = TRUE]
    /\ state' = [c \in Downs |-> IF c \in ups[u].linked /\ ~closed[c]
                                 THEN [state[c] EXCEPT !.netRegistered = TRUE]
                                 ELSE state[c]]
    /\ db' = [c \in Downs |-> IF c \in ups[u].linked /\ ~closed[c]
                              THEN [state[c] EXCEPT !.netRegistered = TRUE]
                              ELSE db[c]]
    /\ UNCHANGED <<closed, pc, obs, scen, store>>

\* the transport of outgoing connection u fails
UpstreamLost(u) ==
    /\ ups[u].connected
    /\ ups' = [ups EXCEPT ![u].connected = FALSE, ![u].netRegistered = FALSE]
    /\ UNCHANGED <<state, closed, db, pc, obs, scen, store>>

Upstream ==
    \/ \E u \in 1..Len(ups) : UpstreamConnected(u)
    \/ \E u \in 1..Len(ups) : UpstreamRegistered(u)
    \/ \E u \in 1..Len(ups) : UpstreamLost(u)

\* one client
Next ==
    \/ \E line \in LinesIn(state["d1"]) : Dispatch("d1", line, TRUE)
    \/ ResumeBind("d1", TRUE)
    \/ ResumeConnect("d1", TRUE)
    \/ Upstream

Spec == Init /\ [][Next]_vars

\* two clients whose handlers interleave at their awaits
NextPair ==
    \/ \E c \in Downs : \E line \in PairLines(c) : Dispatch(c, line, TRUE)
    \/ \E c \in Downs : ResumeBind(c, TRUE)
    \/ \E c \in Downs : ResumeConnect(c, TRUE)
    \/ Upstream

\* the state of a connection after NICK bob and USER bob
AfterNickUser ==
    [NewState EXCEPT !.nick = "bob",
                     !.tempData = ("reg.state" :> [nick |-> "bob", user |-> "bob", pass |-> ""])]

InitPair ==
    /\ state = [c \in Downs |-> AfterNickUser]
    /\ ups = <<>>
    /\ closed = [c \in Downs |-> FALSE]
    /\ db = [c \in Downs |-> AfterNickUser]
    /\ pc = [c \in Downs |-> NoSusp]
    /\ obs = [c \in Downs |-> NewObs(<<>>, AfterNickUser, <<>>)]
    /\ scen = [c \in Downs |-> -1]
    /\ store = NewStore

SpecPair == InitPair /\ [][NextPair]_vars

\* the lines of the handlers that acknowledge a change of state; between CAP LS
\* and CAP END the client sends its NICK
AckLines(st) ==
    IF capping(st)
    THEN { <<"CAP", "END">>, <<"NICK", "bob">> }
    ELSE { <<"CAP", "LS", "302">>, <<"NICK", "bob">>, <<"USER", "bob", "0", "*", "Bob">>,
           <<"PASS", "alice/freenode:s3cret">>, <<"PASS", "alice/freenode:bad">> }

\* one client, and a persistence layer that may reject the writes of a step
NextFail ==
    \/ \E line \in AckLines(state["d1"]) : \E ok \in BOOLEAN : Dispatch("d1", line, ok)
    \/ \E ok \in BOOLEAN : ResumeBind("d1", ok)
    \/ Upstream

SpecFail == Init /\ [][NextFail]_vars

\* a registered client whose upstream has the buffers of spec.md, scenario 5
Registered ==
    [NewState EXCEPT !.netRegistered = TRUE, !.nick = "bob",
                     !.authUserId = 4, !.authNetworkId = 9]

WithBuffers ==
    [NewUpstream(NetworkById(9), {"d1"}) EXCEPT
        !.dialing = FALSE, !.connected = TRUE, !.netRegistered = TRUE,
        !.buffers = ("#a" :> [name |-> "#a", joined |-> TRUE, topic |-> "t"])
                    @@ ("bob" :> [name |-> "bob", joined |-> FALSE, topic |-> ""])]

InitBouncer ==
    /\ state = [c \in Downs |-> IF c = "d1" THEN Registered ELSE NewState]
    /\ ups = <<WithBuffers>>
    /\ closed = [c \in Downs |-> FALSE]
    /\ db = [c \in Downs |-> IF c = "d1" THEN Registered ELSE NewState]
    /\ pc = [c \in Downs |-> NoSusp]
    /\ obs = [c \in Downs |-> NewObs(<<>>, state[c], ups)]
    /\ scen = [c \in Downs |-> -1]
    /\ store = NewStore

\* the BOUNCER lines of a client
BouncerLines ==
    { <<"BOUNCER", sub>> : sub \in netSubCmds \cup {"LISTNETWORKS"} }
    \cup { <<"BOUNCER", sub, net>> :
              sub \in netSubCmds, net \in {"nonet", "freenode", "oftc"} }
    \cup { <<"BOUNCER", "DELBUFFER", net, buf>> :
              net \in {"nonet", "freenode", "oftc"}, buf \in {"#a", "#A", "bob", "#zz"} }

NextBouncer ==
    \/ \E line \in BouncerLines : Dispatch("d1", line, TRUE)
    \/ ResumeConnect("d1", TRUE)
    \/ Upstream

SpecBouncer == InitBouncer /\ [][NextBouncer]_vars

\* ------------------------------------- a connection state under its operations
\* the data-model fields of the record, without the identity of its buffers
dataOf(cs) ==
    [ bindHost |-> cs.bindHost, host |-> cs.host, port |-> cs.port, tls |-> cs.tls,
      tlsverify |-> cs.tlsverify, sasl |-> cs.sasl, username |-> cs.username,
      realname |-> cs.realname, password |-> cs.password,
      authNetworkName |-> cs.authNetworkName, nick |-> cs.nick,
      connected |-> cs.connected, caps |-> cs.caps,
      registrationLines |-> cs.registrationLines, isupports |-> cs.isupports,
      logging |-> cs.logging,
      buffers |-> [k \in DOMAIN cs.buffers |-> bufferJson(cs.buffers[k])],
      linkedIncomingConIds |-> cs.linkedIncomingConIds,
      tempData |-> cs.tempData ]

BufferNames == {"#Foo", "#FOO", "Bob"}

TempKeys == {"a", "b"}

\* the first argument of tempSet, with the second when it is a string
TempArgs ==
    { [type |-> "string", name |-> k, val |-> v] : k \in TempKeys, v \in {"v1", "v2", NULL} }
    \cup { [type |-> "object", map |-> f] : f \in [TempKeys -> {"v1", NULL}] }
    \cup { [type |-> "object", map |-> ("a" :> "v2")], [type |-> "number"] }

\* the fields of the record by the operations that assign them
part(cs, group) ==
    CASE group = "buffers" -> <<cs.buffers>>
      [] group = "temp"    -> <<cs.tempData>>
      [] group = "links"   -> <<cs.linkedIncomingConIds>>
      [] group = "info"    -> <<cs.bindHost, cs.host, cs.port, cs.tls, cs.tlsverify, cs.sasl,
                                cs.username, cs.realname, cs.password,
                                cs.authNetworkName, cs.nick>>

\* the operations are exercised one group of fields at a time: the fields of
\* the other groups are as the constructor left them
Only(group) ==
    \A g \in {"buffers", "temp", "links", "info"} \ {group} :
        part(store.cs, g) = part(NewRecord, g)

\* an operation that assigns fields and does not save
Assign(cs, op) ==
    /\ store' = [store EXCEPT !.cs = cs, !.clean = @ /\ cs = store.cs,
                              !.last = [NoOp EXCEPT !.op = op]]
    /\ UNCHANGED <<state, ups, closed, db, pc, obs, scen>>

\* an operation that assigns fields and calls save() n times
Saved(cs, op, key, n) ==
    /\ store' = [cs |-> cs, snap |-> dataOf(cs), clean |-> TRUE,
                 last |-> [NoOp EXCEPT !.op = op, !.saves = n, !.key = key,
                                       !.before = store.cs.tempData]]
    /\ UNCHANGED <<state, ups, closed, db, pc, obs, scen>>

AddBuffer(name, withUpstream) == Assign(addBuffer(store.cs, name, withUpstream), "addBuffer")

GetOrAddBuffer(name, withUpstream) ==
    IF getBuffer(store.cs, name) # ""
    THEN Assign(store.cs, "getOrAddBuffer")
    ELSE Saved(addBuffer(store.cs, name, withUpstream), "getOrAddBuffer", NoOp.key, 1)

DelBuffer(name) == Assign(delBuffer(store.cs, name), "delBuffer")

RenameBuffer(oldName, newName) ==
    Assign(renameBuffer(store.cs, oldName, newName), "renameBuffer")

\* the upstream's message loop updates a buffer: joined, and seen at time 1
BufferSeen(name) ==
    /\ getBuffer(store.cs, name) # ""
    /\ Assign([store.cs EXCEPT !.buffers[getBuffer(store.cs, name)].joined = TRUE,
                                !.buffers[getBuffer(store.cs, name)].lastSeen = 1],
              "bufferSeen")

TempSet(key) == Saved(ConnectionState_tempSet(store.cs, key), "tempSet", key, 1)

LinkIncoming(id) == Saved(linkIncomingConnection(store.cs, id), "link", NoOp.key, 1)

UnlinkIncoming(id) == Saved(unlinkIncomingConnection(store.cs, id), "unlink", NoOp.key, 1)

\* was: the record before the call; net: what the user store answered
LoadConnectionInfo(net) ==
    /\ store' = [store EXCEPT !.cs = loadConnectionInfo(store.cs, net),
                              !.clean = @ /\ loadConnectionInfo(store.cs, net) = store.cs,
                              !.last = [NoOp EXCEPT !.op = "loadConnectionInfo",
                                                    !.was = store.cs, !.net = net]]
    /\ UNCHANGED <<state, ups, closed, db, pc, obs, scen>>

Save == Saved(store.cs, "save", NoOp.key, 1)

\* load(): direct tells that the row is the one a save() wrote from the record
\* as it is in memory now
Load ==
    /\ store' = [store EXCEPT
           !.cs = ConnectionState_load(store.cs,
                     IF store.snap = NoRow THEN NoRow ELSE toRow(store.snap)),
           !.last = [NoOp EXCEPT !.op = "load",
                                 !.direct = store.clean /\ store.snap # NoRow]]
    /\ UNCHANGED <<state, ups, closed, db, pc, obs, scen>>

NextStore ==
    \/ \E name \in BufferNames, withUpstream \in BOOLEAN :
           Only("buffers") /\ AddBuffer(name, withUpstream)
    \/ \E name \in BufferNames, withUpstream \in BOOLEAN :
           Only("buffers") /\ GetOrAddBuffer(name, withUpstream)
    \/ \E name \in BufferNames : Only("buffers") /\ DelBuffer(name)
    \/ \E oldName, newName \in BufferNames :
           Only("buffers") /\ RenameBuffer(oldName, newName)
    \/ \E name \in BufferNames : Only("buffers") /\ BufferSeen(name)
    \/ \E key \in TempArgs : Only("temp") /\ TempSet(key)
    \/ \E id \in Downs : Only("links") /\ LinkIncoming(id)
    \/ \E id \in Downs : Only("links") /\ UnlinkIncoming(id)
    \/ \E net \in NetInfos : Only("info") /\ LoadConnectionInfo(net)
    \/ Save
    \/ Load

SpecStore == Init /\ [][NextStore]_vars

\* ------------------------------------------- two clients of a dialing upstream
\* the state of a connection that has logged into network 9 and waits for the
\* upstream to register
LoggedIn ==
    [NewState EXCEPT !.nick = "bob", !.authUserId = 4, !.authNetworkId = 9]

InitNotice ==
    /\ state = [c \in Downs |-> LoggedIn]
    /\ ups = <<NewUpstream(NetworkById(9), Downs)>>
    /\ closed = [c \in Downs |-> FALSE]
    /\ db = [c \in Downs |-> LoggedIn]
    /\ pc = [c \in Downs |-> NoSusp]
    /\ obs = [c \in Downs |-> NewObs(<<>>, LoggedIn, <<NewUpstream(NetworkById(9), Downs)>>)]
    /\ scen = [c \in Downs |-> -1]
    /\ store = NewStore

\* the lines the two clients send
NoticeLines(c) ==
    IF c = "d1"
    THEN { <<"NOTICE", "#x", "hi">>, <<"PRIVMSG", "#x", "hi">>,
           <<"CAP", "LS", "302">>, <<"CAP", "END">> }
    ELSE { <<"NOTICE", "#x", "hi">> }

NextNotice ==
    \/ \E c \in Downs : \E line \in NoticeLines(c) : Dispatch(c, line, TRUE)
    \/ Upstream

SpecNotice == InitNotice /\ [][NextNotice]_vars

\* ------------------------------------ loadConnectionInfo on an upstream's record
\* the record of an upstream when loadConnectionInfo is called: as constructed or
\* with the transport open and the nick the network gave it
InfoRecords ==
    { [NewRecord EXCEPT !.connected = connected, !.nick = nick] :
          connected \in BOOLEAN, nick \in {"unknown-user", "bob", "alice_fn"} }

InitInfo ==
    /\ state = [c \in Downs |-> NewState]
    /\ ups = <<>>
    /\ closed = [c \in Downs |-> FALSE]
    /\ db = [c \in Downs |-> NewState]
    /\ pc = [c \in Downs |-> NoSusp]
    /\ obs = [c \in Downs |-> NewObs(<<>>, NewState, <<>>)]
    /\ scen = [c \in Downs |-> 0]
    /\ \E cs \in InfoRecords : store = [NewStore EXCEPT !.cs = cs]

NextInfo == \E net \in NetInfos : LoadConnectionInfo(net)

SpecInfo == InitInfo /\ [][NextInfo]_vars

\* ================================================================ claims
\* the verb of the line of the last dispatch on c
verbOf(c) == IF Len(obs[c].line) = 0 THEN "" ELSE obs[c].line[1]

\* the last line of c met the CAP gate: it came from the socket while capping was
\* set and is neither CAP nor one of the verbs that are always executed
Gated(c) ==
    /\ obs[c].result # "none"
    /\ capping(obs[c].pre.st)
    /\ verbOf(c) \notin {"CAP", "PING", "DEB", "RELOAD"}

\* the last line of c was only enqueued: no handler, no reply, no copy, no
\* record, not forwarded, and the state differs by the line appended to reg.queue
OnlyEnqueued(c) ==
    /\ obs[c].execd = {}
    /\ obs[c].out = <<>>
    /\ \A d \in Downs : obs[c].echo[d] = 0
    /\ obs[c].stored = <<>>
    /\ obs[c].made = 0 /\ obs[c].opened = 0 /\ obs[c].burst = 0 /\ obs[c].authCalls = 0
    /\ obs[c].result = "false"
    /\ obs[c].post = tempPut(obs[c].pre.st, "reg.queue",
                             Append(regQueue(obs[c].pre.st), obs[c].line), FALSE)

\* C1 (as stated): run returns "forward upstream" only in a state where
\* netRegistered is true and capping is not set, and a line dispatched before
\* registration or between CAP LS and CAP END is not forwarded when dispatched.
C1_Original ==
    \A c \in Downs :
        /\ \A r \in obs[c].runs : r.ret = "true" => r.netRegistered /\ ~r.capping
        /\ obs[c].result = "true" =>
               obs[c].pre.st.netRegistered /\ ~capping(obs[c].pre.st)

\* C1 (amended): run returns "forward upstream" only when netRegistered is true
\* and, unless the line is replayed from reg.queue, capping is not set; the run
\* of a line that came from the socket before registration or between CAP LS
\* and CAP END never returns "forward upstream".
C1_ForwardOnlyRegistered ==
    \A c \in Downs :
        /\ \A r \in obs[c].runs :
               r.ret = "true" => r.netRegistered /\ (r.capping => r.source = "queue")
        /\ obs[c].result = "true" =>
               obs[c].pre.st.netRegistered /\ ~capping(obs[c].pre.st)

\* a replayed line whose run returned "forward upstream" while capping was set
C1_Witness ==
    \E c \in Downs : \E r \in obs[c].runs :
        r.ret = "true" /\ r.source = "queue" /\ r.capping /\ r.netRegistered

\* C2 (as stated): while capping is set no verb other than CAP is executed,
\* replayed lines excepted; every other line is only enqueued.
C2_Original ==
    \A c \in Downs :
        /\ \A e \in obs[c].execd : (e.capping /\ e.source # "queue") => e.verb = "CAP"
        /\ (obs[c].result # "none" /\ capping(obs[c].pre.st) /\ verbOf(c) # "CAP")
               => OnlyEnqueued(c)

\* C2 (amended): while capping is set the only verbs executed are CAP and the
\* verbs run executes unconditionally (PING, DEB, RELOAD), replayed lines
\* excepted; every other line is only enqueued.
C2_CappingOnlyEnqueues ==
    \A c \in Downs :
        /\ \A e \in obs[c].execd :
               (e.capping /\ e.source # "queue") => e.verb \in {"CAP", "PING", "DEB", "RELOAD"}
        /\ Gated(c) => OnlyEnqueued(c)

\* a line was enqueued behind another one while capping was set
C2_Witness ==
    \E c \in Downs : Gated(c) /\ Len(regQueue(obs[c].post)) = 2 /\ capping(state[c])

\* C3 (as stated): while netRegistered is false the only handlers executed are
\* USER, NICK, PASS and CAP; any other verb is rejected with no handler call, no
\* reply, no error and no forward.
C3_Original ==
    \A c \in Downs :
        /\ \A e \in obs[c].execd :
               ~e.netRegistered => e.verb \in {"USER", "NICK", "PASS", "CAP"}
        /\ (obs[c].result # "none" /\ ~obs[c].pre.st.netRegistered
              /\ verbOf(c) \notin {"USER", "NICK", "PASS", "CAP"})
               => obs[c].execd = {} /\ obs[c].out = <<>> /\ obs[c].result = "false"

\* C3 (amended): while netRegistered is false the only handlers executed are
\* USER, NICK, PASS, CAP and the verbs run executes unconditionally (PING, DEB,
\* RELOAD); any other verb is rejected with no handler call, no reply, no error
\* and no forward.
C3_PreRegistrationVerbs ==
    \A c \in Downs :
        /\ \A e \in obs[c].execd :
               ~e.netRegistered =>
                   e.verb \in {"USER", "NICK", "PASS", "CAP", "PING", "DEB", "RELOAD"}
        /\ (obs[c].result # "none" /\ ~obs[c].pre.st.netRegistered
              /\ verbOf(c) \notin {"USER", "NICK", "PASS", "CAP", "PING", "DEB", "RELOAD"})
               => obs[c].execd = {} /\ obs[c].out = <<>> /\ obs[c].result = "false"

\* a verb outside the list was rejected by the pre-registration gate
C3_Witness ==
    \E c \in Downs :
        /\ obs[c].result = "false"
        /\ ~obs[c].pre.st.netRegistered /\ ~capping(obs[c].pre.st)
        /\ verbOf(c) \in {"JOIN", "PRIVMSG", "BOUNCER"}
        /\ obs[c].post = obs[c].pre.st

\* C4: the nth line of reg.queue before CAP END, tagged source=queue
Replay(c) ==
    [i \in 1..Len(regQueue(obs[c].pre.st)) |->
        [line |-> regQueue(obs[c].pre.st)[i], source |-> "queue"]]

\* the last line of c was CAP END and its handler is through
CapEnded(c) ==
    /\ obs[c].line = <<"CAP", "END">>
    /\ obs[c].result \in {"false", "pending"}

StatusWritten(c, text) ==
    \E i \in 1..Len(obs[c].out) :
        obs[c].out[i].from = "*bnc" /\ obs[c].out[i].words[1] = "PRIVMSG"
            /\ obs[c].out[i].words[3] = text

\* C5: after CAP LS 302, NICK, USER, PASS alice/freenode:s3cret, CAP END on a
\* fresh connection, with no connected upstream present, authUserId and
\* authNetworkId are the ids the credential store returned (4 and 9), exactly
\* one of makeUpstream and upstream.open was called, 'Connecting to the
\* network..' was written, and reg.queue and reg.state are unset; before CAP END
\* none of this has happened.
C5_HappyPath ==
    \A c \in Downs :
        /\ (scen[c] = 5 /\ pc[c].at = "idle") =>
               /\ obs[c].result = "false"
               /\ \A b \in obs[c].binds : b.upstream \in {"none", "disconnected"}
               /\ state[c].authUserId = 4
               /\ state[c].authNetworkId = 9
               /\ obs[c].authCalls = 1
               /\ obs[c].made + obs[c].opened = 1
               /\ StatusWritten(c, "Connecting to the network..")
               /\ ~tempHas(state[c], "reg.queue")
               /\ ~tempHas(state[c], "reg.state")
               /\ ~tempHas(state[c], "capping")
        /\ scen[c] \in 1..4 =>
               /\ state[c].authUserId = 0
               /\ state[c].authNetworkId = 0
               /\ obs[c].authCalls = 0
               /\ obs[c].made = 0 /\ obs[c].opened = 0 /\ obs[c].burst = 0
               /\ obs[c].binds = {}
               /\ ups = <<>>
               /\ ~StatusWritten(c, "Connecting to the network..")
               /\ tempHas(state[c], "capping")

\* the scenario has run to its end and the upstream was made
C5_Witness ==
    \E c \in Downs :
        /\ scen[c] = 5 /\ pc[c].at = "idle"
        /\ obs[c].made = 1
        /\ Len(ups) = 1 /\ ups[1].userId = 4 /\ ups[1].networkId = 9 /\ c \in ups[1].linked

AllSet(facts) == facts.nick /\ facts.user /\ facts.pass

\* C6: maybeProcessRegistration calls the credential store and binds an
\* upstream only when reg.state.nick, user and pass are all non-empty and capping
\* is not set; in every other state it changes nothing.
C6_RegistrationGuard ==
    \A c \in Downs :
        /\ \A r \in obs[c].mpr :
               /\ r.called => AllSet(r.facts) /\ ~r.capping
               /\ ~(AllSet(r.facts) /\ ~r.capping) => ~r.changed
        /\ \A b \in obs[c].binds : AllSet(b.facts) /\ ~b.capping
        /\ obs[c].authCalls > 0 => \E r \in obs[c].mpr : r.called

\* in one dispatch maybeProcessRegistration has returned at its guard with all
\* three fields set during CAP negotiation, and has then gone on to bind
C6_Witness ==
    \E c \in Downs :
        /\ \E r \in obs[c].mpr : AllSet(r.facts) /\ r.capping /\ ~r.called
        /\ \E r \in obs[c].mpr : r.called /\ r.changed
        /\ obs[c].binds # {}

\* the PASS arguments the pattern or the credential store rejects
BadPassArgs == {"alice/freenode:bad", "xxx", ":"}

\* registration was attempted on c with a PASS argument that is rejected
AuthFailed(c) ==
    /\ pc[c].at = "idle"
    /\ obs[c].result # "none"
    /\ tempHas(state[c], "reg.state")
    /\ AllSet(regFacts(state[c]))
    /\ ~capping(state[c])
    /\ tempGet(state[c], "reg.state").pass \in BadPassArgs

\* C7: when authentication fails the client is sent 'ERROR :Invalid password'
\* and the connection is closed; authUserId and authNetworkId stay 0, no
\* upstream is created or opened and no registration burst is sent.
C7_AuthFailure ==
    \A c \in Downs :
        AuthFailed(c) =>
            /\ closed[c]
            /\ \E i \in 1..Len(obs[c].out) :
                   obs[c].out[i].from = "" /\ obs[c].out[i].words = <<"ERROR", "Invalid password">>
            /\ state[c].authUserId = 0 /\ state[c].authNetworkId = 0
            /\ obs[c].made = 0 /\ obs[c].opened = 0 /\ obs[c].burst = 0
            /\ obs[c].binds = {}
            /\ ups = <<>>
            /\ ~state[c].netRegistered

\* the credential store has rejected a network login
C7_Witness ==
    \E c \in Downs :
        /\ AuthFailed(c) /\ closed[c]
        /\ tempGet(state[c], "reg.state").pass = "alice/freenode:bad"
        /\ obs[c].authCalls = 1

\* C8: at most one outgoing connection per (userId, networkId) in the registry,
\* also when two clients of the user register for, or BOUNCER CONNECT to, the
\* same network and their handlers interleave at the awaits.
C8_OneUpstreamPerNetwork ==
    \A i, j \in 1..Len(ups) :
        (ups[i].userId = ups[j].userId /\ ups[i].networkId = ups[j].networkId) => i = j

\* d2 sent its PASS while the registry was empty, d1 made the upstream while d2
\* was suspended at its await, and d2 then found that upstream
C8_Witness ==
    /\ Len(ups) = 1
    /\ ups[1].linked = {"d1", "d2"}
    /\ \E b \in obs["d1"].binds : b.how = "make"
    /\ obs["d2"].pre.nUps = 0
    /\ \E b \in obs["d2"].binds : b.how \in {"open", "attach"}

\* the last line of c was a PRIVMSG, not to *bnc, of a registered client that was
\* linked to its upstream
SentPrivmsg(c) ==
    /\ obs[c].result # "none"
    /\ Len(obs[c].line) = 3
    /\ obs[c].line[1] = "PRIVMSG"
    /\ obs[c].line[2] # "*bnc"
    /\ obs[c].pre.st.netRegistered
    /\ c \in obs[c].pre.up.linked

\* every other client of the upstream got one copy from the upstream's nick,
\* the sender none, the message store one record, and run returned "forward"
FannedOut(c) ==
    /\ obs[c].result = "true"
    /\ \A d \in Downs :
           obs[c].echo[d] = IF d \in obs[c].pre.up.linked \ {c} THEN 1 ELSE 0
    /\ obs[c].echoed = {[to |-> d, from |-> obs[c].pre.up.nick, words |-> obs[c].line] :
                            d \in obs[c].pre.up.linked \ {c}}
    /\ obs[c].stored = <<[userId |-> 4, networkId |-> 9, words |-> obs[c].line]>>

\* C9 (as stated): a PRIVMSG, not to *bnc, of a registered client linked to an
\* upstream is copied once to every other client of the upstream and not to the
\* sender, is stored once, and run returns "forward upstream".
C9_Original == \A c \in Downs : SentPrivmsg(c) => FannedOut(c)

\* C9 (amended): the same, for a client that is not in CAP negotiation
\* (capping is not set when the line is dispatched).
C9_FanOut == \A c \in Downs : (SentPrivmsg(c) /\ ~capping(obs[c].pre.st)) => FannedOut(c)

\* d1 has sent a PRIVMSG that d2 got a copy of
C9_Witness ==
    /\ SentPrivmsg("d1") /\ ~capping(obs["d1"].pre.st)
    /\ obs["d1"].pre.up.linked = {"d1", "d2"}
    /\ obs["d1"].echo["d2"] = 1 /\ obs["d1"].echo["d1"] = 0
    /\ obs["d1"].result = "true"

\* the lines that acknowledge a change of state: the NICK echo, 464, the CAP LS
\* reply and CAP ACK
IsAck(o) ==
    \/ o.words[1] = "NICK"
    \/ o.words[1] = "464"
    \/ (o.words[1] = "CAP" /\ o.words[3] \in {"LS", "ACK"})

\* C10: a handler that changes the state of the connection and acknowledges it
\* writes the acknowledgement after the save() of the change has completed, and
\* does not write it when that save() fails.
C10_SaveBeforeAck ==
    \A c \in Downs : \A i \in 1..Len(obs[c].out) :
        IsAck(obs[c].out[i]) => obs[c].out[i].saved /\ obs[c].dbOk

\* the word of the last line of c at position i, "" when it has none
wordOf(c, i) == IF Len(obs[c].line) >= i THEN obs[c].line[i] ELSE ""

\* the last line of c came from the socket and was handled by commands.BOUNCER
\* with one of the sub-commands that take a network name
BouncerRan(c) ==
    /\ obs[c].result # "none"
    /\ verbOf(c) = "BOUNCER"
    /\ wordOf(c, 2) \in {"CONNECT", "DISCONNECT", "LISTBUFFERS", "DELBUFFER"}
    /\ \E h \in obs[c].execd : h.verb = "BOUNCER" /\ h.source = "socket"

\* a required argument of the last line of c is missing
MissingArg(c) ==
    wordOf(c, 3) = "" \/ (wordOf(c, 2) = "DELBUFFER" /\ wordOf(c, 4) = "")

\* the last line of c names a network the user does not have
UnknownNet(c) ==
    /\ ~MissingArg(c)
    /\ \A n \in Networks : ~(n.user_id = obs[c].pre.st.authUserId /\ n.name = wordOf(c, 3))

\* the one reply of the last dispatch of c is BOUNCER <subcmd> * token, and the
\* dispatch did nothing else
OnlyReply(c, token) ==
    LET sub == CASE wordOf(c, 2) = "CONNECT"     -> "connect"
                 [] wordOf(c, 2) = "DISCONNECT"  -> "disconnect"
                 [] wordOf(c, 2) = "LISTBUFFERS" -> "listbuffers"
                 [] wordOf(c, 2) = "DELBUFFER"   -> "delbuffer"
    IN  /\ Len(obs[c].out) = 1
        /\ obs[c].out[1].words = <<"BOUNCER", sub, "*", token>>
        /\ ~closed[c]
        /\ obs[c].made = 0 /\ obs[c].opened = 0 /\ obs[c].shut = 0
        /\ obs[c].dels = 0 /\ obs[c].upOut = <<>>
        /\ obs[c].result = "false"

\* C14: BOUNCER CONNECT, DISCONNECT, LISTBUFFERS and DELBUFFER answer a missing
\* argument with exactly one ERR_INVALIDARGS reply and an unknown network with
\* exactly one ERR_NETNOTFOUND reply; the connection stays open, no upstream is
\* made, opened or closed, no buffer changes and the line is not forwarded.
C14_BouncerArgErrors ==
    \A c \in Downs : BouncerRan(c) =>
        /\ MissingArg(c) => OnlyReply(c, "ERR_INVALIDARGS")
        /\ UnknownNet(c) => OnlyReply(c, "ERR_NETNOTFOUND")

\* DELBUFFER with a network and no buffer name was answered
C14_Witness ==
    /\ BouncerRan("d1")
    /\ obs["d1"].line = <<"BOUNCER", "DELBUFFER", "freenode">>
    /\ OnlyReply("d1", "ERR_INVALIDARGS")

\* the last line of c was a BOUNCER DELBUFFER with its arguments and a network
\* of the user
DelBufferRan(c) ==
    BouncerRan(c) /\ wordOf(c, 2) = "DELBUFFER" /\ ~MissingArg(c) /\ ~UnknownNet(c)

\* C17: BOUNCER DELBUFFER with valid arguments and a known network replies
\* exactly one RPL_OK and completes without error; an existing buffer is removed
\* and PART is sent upstream iff it was joined; with no such buffer or no
\* upstream nothing is removed and no PART is sent.
C17_DelBuffer ==
    \A c \in Downs : DelBufferRan(c) =>
        LET key     == toLowerCase(wordOf(c, 4))
            own     == \E n \in Networks : /\ n.name = wordOf(c, 3)
                                           /\ n.id = obs[c].pre.st.authNetworkId
            existed == own /\ key \in DOMAIN obs[c].pre.up.buffers
        IN  /\ obs[c].result = "false"
            /\ Len(obs[c].out) = 1
            /\ obs[c].out[1].words =
                   <<"BOUNCER", "delbuffer", wordOf(c, 3), wordOf(c, 4), "RPL_OK">>
            /\ IF existed
               THEN /\ obs[c].dels = 1
                    /\ obs[c].upOut = IF obs[c].pre.up.buffers[key].joined
                                      THEN << <<"PART", obs[c].pre.up.buffers[key].name>> >>
                                      ELSE <<>>
               ELSE obs[c].dels = 0 /\ obs[c].upOut = <<>>

\* C15: the binding after a login to a network takes one of three branches.  An
\* upstream that is connected: 'Attaching you to the network', registerClient
\* iff the upstream is registered, no open and no makeUpstream.  An upstream that
\* is not connected: 'Connecting to the network..' and one open.  No upstream:
\* one makeUpstream.  reg.state is unset afterwards in each.
C15_BindBranches ==
    \A c \in Downs : \A b \in obs[c].binds :
        (pc[c].at = "idle" /\ obs[c].post.authNetworkId # 0) =>
            /\ ~tempHas(obs[c].post, "reg.state")
            /\ b.upstream \in {"connected", "registered"} =>
                   /\ StatusWritten(c, "Attaching you to the network")
                   /\ obs[c].burst = (IF b.upstream = "registered" THEN 1 ELSE 0)
                   /\ obs[c].opened = 0 /\ obs[c].made = 0
            /\ b.upstream = "disconnected" =>
                   /\ StatusWritten(c, "Connecting to the network..")
                   /\ obs[c].opened = 1 /\ obs[c].made = 0 /\ obs[c].burst = 0
            /\ b.upstream = "none" =>
                   /\ obs[c].made = 1 /\ obs[c].opened = 0 /\ obs[c].burst = 0

\* d2 was attached to an upstream that was connected and not yet registered
C15_Witness ==
    /\ pc["d2"].at = "idle"
    /\ \E b \in obs["d2"].binds : b.upstream = "connected"
    /\ StatusWritten("d2", "Attaching you to the network")
    /\ obs["d2"].burst = 0
    /\ ~tempHas(state["d2"], "reg.state")

\* the last line of c was a NICK that came from the socket outside CAP negotiation
NickRan(c) ==
    /\ obs[c].result \notin {"none", "threw"}
    /\ verbOf(c) = "NICK"
    /\ ~capping(obs[c].pre.st)

\* the words were written to c in its last dispatch
Wrote(c, from, words) ==
    \E i \in 1..Len(obs[c].out) : obs[c].out[i].from = from /\ obs[c].out[i].words = words

\* C16: while the client is not registered, NICK records the nick in
\* con.state.nick and in reg.state.nick, echoes ':nick NICK :nick', sends 464 and
\* the NOTICE and is not forwarded; a registered client whose upstream is not
\* registered has its NICK swallowed; NICK is forwarded only when both are
\* registered.
C16_Nick ==
    \A c \in Downs : NickRan(c) =>
        LET nick == wordOf(c, 2)
        IN  /\ ~obs[c].pre.st.netRegistered =>
                   /\ obs[c].post.nick = nick
                   /\ \E h \in obs[c].handled :
                          /\ h.verb = "NICK"
                          /\ tempHas(h.after, "reg.state")
                          /\ tempGet(h.after, "reg.state").nick = nick
                   /\ Wrote(c, nick, <<"NICK", nick>>)
                   /\ Wrote(c, "bnc", <<"464", nick, "Password required">>)
                   /\ \E i \in 1..Len(obs[c].out) : obs[c].out[i].words[1] = "NOTICE"
                   /\ obs[c].result # "true"
            /\ (obs[c].pre.st.netRegistered /\ ~obs[c].pre.up.netRegistered) =>
                   obs[c].result # "true"
            /\ obs[c].result = "true" =>
                   obs[c].pre.st.netRegistered /\ obs[c].pre.up.netRegistered

\* the last line of c was a CAP REQ that came from the socket
CapReqRan(c) ==
    /\ obs[c].result # "none"
    /\ verbOf(c) = "CAP" /\ wordOf(c, 2) = "REQ"

\* C18: CAP REQ adds to con.state.caps exactly the requested capabilities that
\* are offered and keeps the ones enabled before, saves the state, and replies
\* with one 'CAP * ACK' line that lists the matched capabilities.
C18_CapReq ==
    \A c \in Downs : CapReqRan(c) =>
        LET requested == {split(wordOf(c, 3))[i] : i \in 1..Len(split(wordOf(c, 3)))}
            offered   == {availableCaps[i] : i \in 1..Len(availableCaps)}
            matched   == requested \cap offered
            acks      == {i \in 1..Len(obs[c].out) :
                             /\ obs[c].out[i].words[1] = "CAP"
                             /\ obs[c].out[i].words[3] = "ACK"}
        IN  /\ obs[c].result = "false"
            /\ obs[c].post.caps.elems = obs[c].pre.st.caps.elems \cup matched
            /\ db[c].caps = state[c].caps
            /\ Cardinality(acks) = 1
            /\ \A i \in acks : obs[c].out[i].words[4] = "server-time"

\* C19: PASS on a connection that is logged in (authUserId # 0) changes no field
\* of the connection state, reg.state included, and is not forwarded; PASS with
\* authUserId = 0 sets reg.state.pass to its argument and leaves reg.state.nick
\* and reg.state.user as they were.
C19_PassFrame ==
    \A c \in Downs : \A h \in obs[c].handled : h.verb = "PASS" =>
        /\ h.ret = "false"
        /\ obs[c].result # "true"
        /\ h.before.authUserId # 0 => h.after = h.before
        /\ h.before.authUserId = 0 =>
               /\ tempHas(h.after, "reg.state")
               /\ tempGet(h.after, "reg.state").pass = h.line[2]
               /\ tempGet(h.after, "reg.state").nick = tempGet(h.before, "reg.state").nick
               /\ tempGet(h.after, "reg.state").user = tempGet(h.before, "reg.state").user

\* a PASS was handled on a connection that had logged in and had since sent
\* nothing else
C19_Witness ==
    \E h \in obs["d1"].handled :
        /\ h.verb = "PASS" /\ h.source = "socket"
        /\ h.before.authUserId = 4
        /\ tempHas(h.before, "reg.state")
        /\ h.line = <<"PASS", "alice/freenode:bad">>

\* C11: save() followed by load() yields a record equal to the saved one in
\* every data-model field: transport parameters with bindHost, identity, caps,
\* registrationLines, isupports, linkedIncomingConIds, tempData and every buffer
\* with all of its attributes.
C11_RoundTrip ==
    (store.last.op = "load" /\ store.last.direct) => dataOf(store.cs) = store.snap

\* C12: every key of buffers is the lowercase form of the name of the buffer it
\* holds, and no buffer object is held under two keys.
C12_BufferKeys ==
    LET buffers == store.cs.buffers
    IN  /\ \A k \in DOMAIN buffers : k = toLowerCase(buffers[k].name)
        /\ \A j, k \in DOMAIN buffers : buffers[j].id = buffers[k].id => j = k

\* a buffer that had been seen was renamed and moved to the key of its new name
C12_Witness ==
    /\ store.last.op = "renameBuffer"
    /\ DOMAIN store.cs.buffers = {"#foo"}
    /\ store.cs.buffers["#foo"].name = "#FOO"
    /\ store.cs.buffers["#foo"].isChannel = FALSE
    /\ store.cs.buffers["#foo"].lastSeen = 1

\* the keys of tempData that the last tempSet names
named(key) ==
    CASE key.type = "string" -> {key.name}
      [] key.type = "object" -> DOMAIN key.map
      [] OTHER -> {}

\* the value the last tempSet gives for k
given(key, k) == IF key.type = "string" THEN key.val ELSE key.map[k]

\* C20: tempSet(key, value) makes tempGet(key) return value, tempSet(key, null)
\* removes the key, tempSet(mapping) applies every entry (null deletes); every
\* other key of tempData is unchanged and exactly one save() is triggered.
C20_TempSet ==
    store.last.op = "tempSet" =>
        LET key == store.last.key
            old == store.last.before
            new == store.cs.tempData
        IN  /\ store.last.saves = 1
            /\ \A k \in named(key) :
                   IF given(key, k) = NULL THEN k \notin DOMAIN new
                   ELSE k \in DOMAIN new /\ new[k] = given(key, k)
            /\ \A k \in (DOMAIN old \cup DOMAIN new) \ named(key) :
                   k \in DOMAIN old /\ k \in DOMAIN new /\ new[k] = old[k]

\* a mapping deleted one key that was set and set the other
C20_Witness ==
    /\ store.last.op = "tempSet"
    /\ store.last.key = [type |-> "object", map |-> ("a" :> NULL) @@ ("b" :> "v1")]
    /\ "a" \in DOMAIN store.last.before
    /\ DOMAIN store.cs.tempData = {"b"}
    /\ store.snap.tempData = store.cs.tempData

\* loadConnectionInfo has just run on the record
InfoLoaded == store.last.op = "loadConnectionInfo"

\* C21: loadConnectionInfo leaves nick alone when connected is true, whether the
\* network exists or not; when connected is false it sets nick from the network,
\* or to the empty string when the network is absent; when the network is absent
\* it clears bindHost, host, port, tls, tlsverify, sasl, username, realname and
\* password.
C21_LoadConnectionInfo ==
    InfoLoaded =>
        LET was == store.last.was
            net == store.last.net
            cs  == store.cs
        IN  /\ was.connected => cs.nick = was.nick
            /\ ~was.connected => cs.nick = (IF net.found THEN net.nick ELSE "")
            /\ ~net.found =>
                  /\ cs.bindHost = "" /\ cs.host = "" /\ cs.port = 0
                  /\ cs.tls = FALSE /\ cs.tlsverify = FALSE
                  /\ cs.sasl = [account |-> "", password |-> ""]
                  /\ cs.username = "" /\ cs.realname = "" /\ cs.password = ""

\* the last line of c is a registration line dispatched from the socket when
\* authUserId had already been set
AuthedBefore(c) ==
    /\ obs[c].pre.st.authUserId # 0
    /\ verbOf(c) \in {"PASS", "NICK", "USER", "CAP"}

\* C22: on a connection whose authUserId has been set, no later PASS, NICK, USER
\* or CAP line makes maybeProcessRegistration call authUser or authUserNetwork,
\* makeUpstream, upstream.open, registerClient or registerLocalClient again, and
\* reg.state.pass is not set to a non-empty value again.
C22_AuthOnce ==
    \A c \in Downs :
        AuthedBefore(c) =>
            /\ obs[c].authCalls = 0
            /\ obs[c].binds = {}
            /\ tempHas(state[c], "reg.state") => tempGet(state[c], "reg.state").pass = ""

\* after authentication the client sent USER again and then PASS: the handler
\* ran, maybeProcessRegistration was called and found no password
C22_Witness ==
    /\ AuthedBefore("d1")
    /\ verbOf("d1") = "PASS"
    /\ obs["d1"].result = "false"
    /\ \E h \in obs["d1"].handled : h.verb = "PASS"
    /\ obs["d1"].mpr # {}
    /\ tempHas(state["d1"], "reg.state")
    /\ regFacts(state["d1"]).user /\ ~regFacts(state["d1"]).pass

\* the last line of c was CAP END and run() has returned or thrown
CapEndReturned(c) ==
    /\ obs[c].line = <<"CAP", "END">>
    /\ obs[c].result \notin {"none", "pending"}

SentNotice(c) ==
    /\ obs[c].result # "none"
    /\ verbOf(c) = "NOTICE"
    /\ obs[c].pre.st.netRegistered
    /\ ~capping(obs[c].pre.st)

\* C24: run does not return "forward upstream" for the NOTICE of a registered
\* client that is not in CAP negotiation: every other client of its upstream gets
\* one copy, the message store one record, and nothing is written to the
\* upstream; the PRIVMSG of the same client returns "forward upstream".
C24_NoticeLocal ==
    \A c \in Downs :
        /\ SentNotice(c) =>
              /\ obs[c].result = "undefined"
              /\ \A r \in obs[c].runs : r.ret # "true"
              /\ obs[c].upOut = <<>>
              /\ c \in obs[c].pre.up.linked =>
                    /\ \A d \in Downs :
                          obs[c].echo[d] = IF d \in obs[c].pre.up.linked \ {c} THEN 1 ELSE 0
                    /\ obs[c].stored = <<[userId |-> 4, networkId |-> 9, words |-> obs[c].line]>>
        /\ (SentPrivmsg(c) /\ ~capping(obs[c].pre.st)) => obs[c].result = "true"

\* d1 has sent a NOTICE that d2 got a copy of and that was stored
C24_Witness ==
    /\ SentNotice("d1")
    /\ obs["d1"].pre.up.linked = {"d1", "d2"}
    /\ obs["d1"].echo["d2"] = 1
    /\ Len(obs["d1"].stored) = 1
    /\ obs["d1"].result = "undefined"

====
